---- MODULE Spec2Model ----
(***************************************************************************)
(* Model of the data-mapping and KPI layer of the scheduling dashboard     *)
(* (lib/mapping.ts, kept here as src/unnamed/part_004): the baseline and    *)
(* optimized schedule normalizers, the KPI engine and the local simulator. *)
(*                                                                         *)
(* Representation.                                                         *)
(*  - An instant is a whole number of minutes since 00:00 UTC of a         *)
(*    reference day; a calendar day is MinutesPerDay of them.              *)
(*  - A date-time string is a record [k, t]: k = "absent" (undefined or    *)
(*    empty, falsy in JavaScript), "bad" (non-empty, does not parse as a   *)
(*    date) or "iso" (parses to the instant t).                            *)
(*  - A JavaScript number that can be NaN is a record [nan, v].            *)
(*  - A duration string is a record [present, toks]: the string cut into   *)
(*    tokens, [u |-> "PT"] for the letters PT, [n, u] for a run of digits  *)
(*    followed by a unit letter, [u |-> "x"] for anything else.            *)
(*  - A schedule is [threw, resources, events]; threw = TRUE stands for    *)
(*    the function raising an exception instead of returning.              *)
(*  - Visit locations and vehicle skills are not modelled (they are        *)
(*    copied through and never read by the logic modelled here).           *)
(*  - The local time zone is taken to be UTC.                              *)
(***************************************************************************)
EXTENDS Integers, Sequences, FiniteSets, TLC

VARIABLES modelInput, routePlan, now, pc,
          baselineSchedule, optimizedSchedule, simulatedSchedule, kpis

\* the argument and the result of a call of parseDurationToMinutes
VARIABLES durationString, parsedMinutes

mapVars == <<modelInput, routePlan, now,
             baselineSchedule, optimizedSchedule, simulatedSchedule, kpis>>
parseVars == <<durationString, parsedMinutes>>

\* the state of the dashboard page (app/page.tsx) next to the schedules, the
\* route plan and the KPIs above: its useState cells, the polling loops the
\* polling effect has started, the timers of simulateLocally, the requests
\* in flight, and on the other side of the network the solver status of
\* every route plan; polls records, per route plan, the poll requests sent
\* for it and whether a terminal solver status has come back to the page
VARIABLES status, errorMessage, currentView, selectedDatasetId, inputModel,
          routePlanId, activeStatusFilters,
          loops, timers, loads, posts, solver, polls, wallClock

cellVars == <<status, errorMessage, currentView, selectedDatasetId,
              inputModel, routePlanId, activeStatusFilters>>
asyncVars == <<loops, timers, loads, posts>>
serverVars == <<solver, polls>>
pageVars == <<cellVars, asyncVars, serverVars, wallClock>>

vars == <<pc, mapVars, parseVars, pageVars>>

----------------------------------------------------------------------------
(* Date-time strings, dates and numbers *)

MinutesPerDay == 24 * 60

Absent == [k |-> "absent", t |-> 0]
Bad == [k |-> "bad", t |-> 0]
At(t) == [k |-> "iso", t |-> t]

\* JavaScript truthiness of an optional string
Truthy(s) == s.k # "absent"

\* a || b on optional strings
OrElse(a, b) == IF Truthy(a) THEN a ELSE b

NaN == [nan |-> TRUE, v |-> 0]
Num(v) == [nan |-> FALSE, v |-> v]

\* new Date(s).getTime(), in minutes
getTime(s) == IF s.k = "iso" THEN Num(s.t) ELSE NaN

\* date.toISOString() of a valid date
toISOString(t) == At(t)

Min2(a, b) == IF a <= b THEN a ELSE b
Max2(a, b) == IF a >= b THEN a ELSE b

\* Math.round(p / q) for integers p >= 0, q > 0 (halves round up)
RoundDiv(p, q) == (2 * p + q) \div (2 * q)

\* Math.ceil(p / q) for integers p >= 0, q > 0
CeilDiv(p, q) == (p + q - 1) \div q

----------------------------------------------------------------------------
(* Duration helpers *)

NoDuration == [present |-> FALSE, toks |-> <<>>]
PTtok == [n |-> 0, u |-> "PT"]
Tok(n, u) == [n |-> n, u |-> u]
Dur(toks) == [present |-> TRUE, toks |-> toks]

\* index of the leftmost "PT" in the string, 0 when there is none
RECURSIVE FirstPT(_, _)
FirstPT(toks, i) ==
  IF i > Len(toks) THEN 0
  ELSE IF toks[i].u = "PT" THEN i
  ELSE FirstPT(toks, i + 1)

\* does the token at position i carry the unit u
HasUnit(toks, i, u) == i <= Len(toks) /\ toks[i].u = u

\* Math.ceil(seconds / 60)
SecondsToMinutes(seconds) == CeilDiv(seconds, 60)

\* duration.match(/PT(?:(\d+)H)?(?:(\d+)M)?(?:(\d+)S)?/i), then
\* hours * 60 + minutes + Math.ceil(seconds / 60)
parseDurationToMinutes(duration) ==
  IF ~duration.present \/ duration.toks = <<>> THEN 0
  ELSE LET toks == duration.toks
           p == FirstPT(toks, 1)
       IN IF p = 0 THEN 0
          ELSE LET iH == p + 1
                   hasH == HasUnit(toks, iH, "H")
                   iM == IF hasH THEN iH + 1 ELSE iH
                   hasM == HasUnit(toks, iM, "M")
                   iS == IF hasM THEN iM + 1 ELSE iM
                   hasS == HasUnit(toks, iS, "S")
                   hours == IF hasH THEN toks[iH].n ELSE 0
                   minutes == IF hasM THEN toks[iM].n ELSE 0
                   seconds == IF hasS THEN toks[iS].n ELSE 0
               IN hours * 60 + minutes + SecondsToMinutes(seconds)

\* new Date(date.getTime() + minutes * 60000)
addMinutes(date, minutes) == date + minutes

\* x || d on numbers
OrDefault(x, d) == IF x = 0 THEN d ELSE x

----------------------------------------------------------------------------
(* Shifts *)

getShiftStartTime(shift) == OrElse(shift.startTime, shift.minStartTime)

getShiftEndTime(shift) == OrElse(shift.endTime, shift.maxEndTime)

\* the schedule-shaped value standing for a raised exception
Threw == [threw |-> TRUE, resources |-> <<>>, events |-> <<>>]
NoSchedule == [threw |-> FALSE, resources |-> <<>>, events |-> <<>>]
\* null, for a cell of the page that holds an object or null
Null == [null |-> TRUE]
Schedule(resources, events) ==
  [threw |-> FALSE, resources |-> resources, events |-> events]

----------------------------------------------------------------------------
(* Baseline schedule mapping *)

\* modelInput.vehicles.map(...): one resource per vehicle.  The shift
\* helpers read a property of vehicle.shifts[0], so a vehicle whose shift
\* list is empty makes the call raise a TypeError.
ResourcesThrow(modelIn) ==
  \E i \in 1..Len(modelIn.vehicles) : modelIn.vehicles[i].shifts = <<>>

VehicleResource(vehicle) ==
  [id |-> vehicle.id,
   name |-> IF vehicle.name # "" THEN vehicle.name ELSE vehicle.id,
   shiftStart |-> getShiftStartTime(vehicle.shifts[1]),
   shiftEnd |-> getShiftEndTime(vehicle.shifts[1])]

VehicleResources(modelIn) ==
  [i \in 1..Len(modelIn.vehicles) |-> VehicleResource(modelIn.vehicles[i])]

\* if (startTime && endTime)
ShiftHasBounds(shift) ==
  Truthy(getShiftStartTime(shift)) /\ Truthy(getShiftEndTime(shift))

\* the "shift block" event of one shift (shiftIndex counts from 0)
ShiftEvent(vehicle, shiftIndex) ==
  LET shift == vehicle.shifts[shiftIndex + 1]
  IN [id |-> "shift-" \o vehicle.id \o "-" \o ToString(shiftIndex),
      resourceId |-> vehicle.id,
      startDate |-> getShiftStartTime(shift),
      endDate |-> getShiftEndTime(shift),
      name |-> "Available",
      eventType |-> "break",
      status |-> "baseline",
      visitId |-> "",
      travelTime |-> 0]

RECURSIVE VehicleShiftEvents(_, _)
VehicleShiftEvents(vehicle, shiftIndex) ==
  IF shiftIndex >= Len(vehicle.shifts) THEN <<>>
  ELSE (IF ShiftHasBounds(vehicle.shifts[shiftIndex + 1])
        THEN <<ShiftEvent(vehicle, shiftIndex)>> ELSE <<>>)
       \o VehicleShiftEvents(vehicle, shiftIndex + 1)

\* modelInput.vehicles.forEach(vehicle => vehicle.shifts.forEach(...))
RECURSIVE ShiftEvents(_, _)
ShiftEvents(vehicles, i) ==
  IF i > Len(vehicles) THEN <<>>
  ELSE VehicleShiftEvents(vehicles[i], 0) \o ShiftEvents(vehicles, i + 1)

visitDuration == 30
BaselineTravelAllowance == 15

\* a round robin that starts at the second vehicle
BaselineVehicleIndexMutant(index, vehicleCount) == (index + 1) % vehicleCount

\* index % modelInput.vehicles.length
BaselineVehicleIndex(index, vehicleCount) == index % vehicleCount

\* visitIndexInVehicle * (visitDuration + 15)
BaselineStartOffset(visitIndexInVehicle) ==
  visitIndexInVehicle * (visitDuration + BaselineTravelAllowance)

\* the body of modelInput.visits.forEach((visit, index) => ...), index from
\* 0: the events it pushes (none or one).  Called only with a vehicle list
\* that is not empty.
BaselineVisitEvents(modelIn, index) ==
  LET visit == modelIn.visits[index + 1]
      vehicleCount == Len(modelIn.vehicles)
      vehicleIndex == BaselineVehicleIndex(index, vehicleCount)
      vehicle == modelIn.vehicles[vehicleIndex + 1]
  IN IF vehicle.shifts = <<>> THEN <<>>
     ELSE LET shift == vehicle.shifts[1]
              visitIndexInVehicle == index \div vehicleCount
              shiftStartStr == getShiftStartTime(shift)
          IN IF ~Truthy(shiftStartStr) THEN <<>>
             ELSE IF getTime(shiftStartStr).nan THEN <<>>
             ELSE LET shiftStart == getTime(shiftStartStr).v
                      startDate ==
                        addMinutes(shiftStart,
                                   BaselineStartOffset(visitIndexInVehicle))
                      endDate ==
                        addMinutes(startDate,
                          OrDefault(parseDurationToMinutes(visit.serviceDuration),
                                    visitDuration))
                  IN IF startDate >= endDate THEN <<>>
                     ELSE <<[id |-> "baseline-" \o visit.id,
                             resourceId |-> vehicle.id,
                             startDate |-> toISOString(startDate),
                             endDate |-> toISOString(endDate),
                             name |-> visit.name,
                             eventType |-> "visit",
                             status |-> "baseline",
                             visitId |-> visit.id,
                             travelTime |-> 0]>>

RECURSIVE BaselineVisitLoop(_, _)
BaselineVisitLoop(modelIn, index) ==
  IF index >= Len(modelIn.visits) THEN <<>>
  ELSE BaselineVisitEvents(modelIn, index)
       \o BaselineVisitLoop(modelIn, index + 1)

\* index % 0 is NaN, vehicles[NaN] is undefined and vehicle.shifts raises
BaselineVisitsThrow(modelIn) ==
  Len(modelIn.vehicles) = 0 /\ Len(modelIn.visits) > 0

mapInputToBaselineSchedule(modelIn) ==
  IF ResourcesThrow(modelIn) \/ BaselineVisitsThrow(modelIn) THEN Threw
  ELSE Schedule(VehicleResources(modelIn),
                ShiftEvents(modelIn.vehicles, 1)
                  \o BaselineVisitLoop(modelIn, 0))

----------------------------------------------------------------------------
(* Local simulator *)

\* the keys of a Map filled in the order of seq: key(seq[i]) at its first
\* appearance
RECURSIVE KeysInOrder(_, _, _)
KeysInOrder(keys, i, seen) ==
  IF i > Len(keys) THEN <<>>
  ELSE IF keys[i] \in seen THEN KeysInOrder(keys, i + 1, seen)
  ELSE <<keys[i]>> \o KeysInOrder(keys, i + 1, seen \cup {keys[i]})

\* place e after every element of the sorted sequence that does not start
\* later than e (Array.prototype.sort is stable)
RECURSIVE InsertByStart(_, _)
InsertByStart(sorted, e) ==
  IF sorted = <<>> THEN <<e>>
  ELSE IF sorted[Len(sorted)].startDate.t <= e.startDate.t
       THEN Append(sorted, e)
       ELSE Append(InsertByStart(SubSeq(sorted, 1, Len(sorted) - 1), e),
                   sorted[Len(sorted)])

\* events.sort((a, b) => start(a) - start(b))
RECURSIVE SortByStart(_, _)
SortByStart(events, n) ==
  IF n = 0 THEN <<>>
  ELSE InsertByStart(SortByStart(events, n - 1), events[n])

\* new Date(event.startDate).toISOString().split("T")[0]
DayOf(event) == event.startDate.t \div MinutesPerDay

SimDayStartHour == 8
SimFallbackDuration == 30
SimTravelGap == 15
SimTravelPercent == 60

\* new Date(day + "T08:00:00").getTime()
DayStart(day) == day * MinutesPerDay + SimDayStartHour * 60

\* Math.floor((index > 0 ? 15 min : 0) * 0.6)
SimulatedGap(index) ==
  ((IF index > 0 THEN SimTravelGap ELSE 0) * SimTravelPercent) \div 100

\* dayEvents.forEach((event, index) => ...), index from 0, with the running
\* currentTime
RECURSIVE SimulateDay(_, _, _)
SimulateDay(dayEvents, index, currentTime) ==
  IF index >= Len(dayEvents) THEN <<>>
  ELSE LET event == dayEvents[index + 1]
           originalStart == event.startDate.t
           originalEnd == event.endDate.t
           duration == IF originalEnd - originalStart <= 0
                       THEN SimFallbackDuration
                       ELSE originalEnd - originalStart
           newStart == currentTime + SimulatedGap(index)
           newEnd == newStart + duration
       IN IF newStart >= newEnd
          THEN SimulateDay(dayEvents, index + 1,
                           newStart + SimFallbackDuration)
          ELSE <<[event EXCEPT !.id = event.id \o "-optimized",
                               !.startDate = toISOString(newStart),
                               !.endDate = toISOString(newEnd)]>>
               \o SimulateDay(dayEvents, index + 1, newEnd)

\* eventsByDay.forEach((dayEvents, day) => ...) for one resource's sorted
\* events
RECURSIVE SimulateDays(_, _, _)
SimulateDays(sorted, days, d) ==
  IF d > Len(days) THEN <<>>
  ELSE SimulateDay(SelectSeq(sorted, LAMBDA e : DayOf(e) = days[d]), 0,
                   DayStart(days[d]))
       \o SimulateDays(sorted, days, d + 1)

SimulateResource(events, resourceId) ==
  LET own == SelectSeq(events, LAMBDA e : e.resourceId = resourceId)
      sorted == SortByStart(own, Len(own))
      days == KeysInOrder([i \in 1..Len(sorted) |-> DayOf(sorted[i])], 1, {})
  IN SimulateDays(sorted, days, 1)

\* eventsByResource.forEach((events, resourceId) => ...)
RECURSIVE SimulateResources(_, _, _)
SimulateResources(events, resourceIds, r) ==
  IF r > Len(resourceIds) THEN <<>>
  ELSE SimulateResource(events, resourceIds[r])
       \o SimulateResources(events, resourceIds, r + 1)

\* toISOString() raises a RangeError on an invalid date: the day key of an
\* event whose startDate does not parse, the new end of one whose endDate
\* does not parse
SimulateThrows(baseline) ==
  \E i \in 1..Len(baseline.events) :
     \/ baseline.events[i].startDate.k # "iso"
     \/ baseline.events[i].endDate.k # "iso"

simulateOptimizedSchedule(modelIn, baseline) ==
  IF SimulateThrows(baseline) THEN Threw
  ELSE Schedule(baseline.resources,
         SimulateResources(baseline.events,
           KeysInOrder([i \in 1..Len(baseline.events) |->
                          baseline.events[i].resourceId], 1, {}),
           1))

----------------------------------------------------------------------------
(* KPI calculations *)

\* arithmetic on numbers that may be NaN
NAdd(a, b) == IF a.nan \/ b.nan THEN NaN ELSE Num(a.v + b.v)

\* Math.max(0, (start - arrival) / 60000)
WaitBetween(arrival, start) ==
  IF arrival.nan \/ start.nan THEN NaN ELSE Num(Max2(0, start.v - arrival.v))

\* Math.round((work / 60) * rate)
NCost(work, rate) == IF work.nan THEN NaN ELSE Num(RoundDiv(work.v * rate, 60))

\* Math.round(Math.min(100, (work / shiftDuration) * 100)), the work being
\* workNum / workDen minutes
NUtil(workNum, workDen, shiftDuration) ==
  IF workNum.nan THEN NaN
  ELSE Num(Min2(100, RoundDiv(workNum.v * 100, workDen * shiftDuration)))

\* JavaScript truthiness of a duration string
TruthyDuration(d) == d.present /\ d.toks # <<>>

\* modelInput.visits.find((v) => v.id === visitId)?.serviceDuration
RECURSIVE FindVisitDuration(_, _, _)
FindVisitDuration(visits, visitId, i) ==
  IF i > Len(visits) THEN NoDuration
  ELSE IF visits[i].id = visitId THEN visits[i].serviceDuration
  ELSE FindVisitDuration(visits, visitId, i + 1)

DefaultServiceDuration == 30

\* parseDurationToMinutes(visitDetails?.serviceDuration) || 30
ServiceMinutes(duration) ==
  OrDefault(parseDurationToMinutes(duration), DefaultServiceDuration)

\* the wait of one planned visit: 0 unless it carries both timestamps
PlannedWait(pv) ==
  IF Truthy(pv.arrivalTime) /\ Truthy(pv.startServiceTime)
  THEN WaitBetween(getTime(pv.arrivalTime), getTime(pv.startServiceTime))
  ELSE Num(0)

avgTravelMinutes == 15
BaselineWaitBuffer == 5
HOURLY_RATE_SEK == 450

\* a service-time loop without the 30-minute default
RECURSIVE BaselineServiceTimeMutant(_, _)
BaselineServiceTimeMutant(visits, i) ==
  IF i > Len(visits) THEN 0
  ELSE parseDurationToMinutes(visits[i].serviceDuration)
       + BaselineServiceTimeMutant(visits, i + 1)

RECURSIVE BaselineServiceTime(_, _)
BaselineServiceTime(visits, i) ==
  IF i > Len(visits) THEN 0
  ELSE ServiceMinutes(visits[i].serviceDuration)
       + BaselineServiceTime(visits, i + 1)

\* route.visits.forEach((visit) => ...) on the running totals
\* acc = [travel, service, wait]
RECURSIVE KpiVisitLoop(_, _, _, _)
KpiVisitLoop(modelIn, visits, i, acc) ==
  IF i > Len(visits) THEN acc
  ELSE LET visit == visits[i]
           visitId == IF visit.id # "" THEN visit.id ELSE visit.visitId
           duration == FindVisitDuration(modelIn.visits, visitId, 1)
       IN KpiVisitLoop(modelIn, visits, i + 1,
            [travel |-> acc.travel
                        + parseDurationToMinutes(visit.travelTimeFromPrevious),
             service |-> acc.service + ServiceMinutes(duration),
             wait |-> NAdd(acc.wait, PlannedWait(visit)),
             assigned |-> acc.assigned])

\* routePlan.routes.forEach((route) => ...)
RECURSIVE KpiRouteLoop(_, _, _, _)
KpiRouteLoop(modelIn, routes, r, acc) ==
  IF r > Len(routes) THEN acc
  ELSE LET route == routes[r]
           counted == [acc EXCEPT !.assigned = @ + Len(route.visits)]
           after == KpiVisitLoop(modelIn, route.visits, 1, counted)
       IN KpiRouteLoop(modelIn, routes, r + 1,
            IF TruthyDuration(route.totalTravelTime)
            THEN [after EXCEPT
                    !.travel = parseDurationToMinutes(route.totalTravelTime)]
            ELSE after)

\* the "Use metrics if available" block
ApplyMetrics(plan, t) ==
  IF ~plan.metrics.present THEN t
  ELSE LET m == plan.metrics
       IN [assigned |-> IF m.assignedVisits.def
                        THEN m.assignedVisits.v ELSE t.assigned,
           unassigned |-> IF m.unassignedVisits.def
                          THEN m.unassignedVisits.v ELSE t.unassigned,
           travel |-> IF TruthyDuration(m.totalTravelTime)
                      THEN parseDurationToMinutes(m.totalTravelTime)
                      ELSE t.travel,
           service |-> IF TruthyDuration(m.totalServiceTime)
                       THEN parseDurationToMinutes(m.totalServiceTime)
                       ELSE t.service,
           wait |-> t.wait]

\* a branch without a route plan that leaves the wait time at 0
NoPlanWaitMutant(baselineWaitTime) == Num(0)

\* optimizedWaitTime = baselineWaitTime in the branch without a route plan
NoPlanWait(baselineWaitTime) == Num(baselineWaitTime)

\* the optimized-side totals [assigned, unassigned, travel, service, wait]
OptimizedTotals(modelIn, plan, base) ==
  IF plan.present
  THEN LET zero == [travel |-> 0, service |-> 0, wait |-> Num(0),
                    assigned |-> 0]
           acc == IF plan.hasRoutes
                  THEN KpiRouteLoop(modelIn, plan.routes, 1, zero)
                  ELSE zero
       IN ApplyMetrics(plan,
            [assigned |-> acc.assigned,
             unassigned |-> Len(plan.unassignedVisits),
             travel |-> acc.travel,
             service |-> acc.service,
             wait |-> acc.wait])
  ELSE [assigned |-> base.assigned,
        unassigned |-> 0,
        travel |-> base.travel,
        service |-> base.service,
        wait |-> NoPlanWait(base.wait)]

\* routePlan.routes.find((r) => r.vehicleId === vehicle.id): its index, 0
\* when there is none
RECURSIVE FindRoute(_, _, _)
FindRoute(routes, vehicleId, r) ==
  IF r > Len(routes) THEN 0
  ELSE IF routes[r].vehicleId = vehicleId THEN r
  ELSE FindRoute(routes, vehicleId, r + 1)

\* vehicleRoute.visits.forEach((pv) => ...): the route's work time
RECURSIVE RouteWorkTime(_, _, _)
RouteWorkTime(modelIn, visits, i) ==
  IF i > Len(visits) THEN Num(0)
  ELSE LET pv == visits[i]
           duration == FindVisitDuration(modelIn.visits, pv.visitId, 1)
       IN NAdd(NAdd(Num(ServiceMinutes(duration)
                        + parseDurationToMinutes(pv.travelTimeFromPrevious)),
                    PlannedWait(pv)),
               RouteWorkTime(modelIn, visits, i + 1))

\* shift duration in minutes of a vehicle's first shift; NaN when a bound
\* does not parse.  Called only when both bounds are truthy.
ShiftDuration(shift) ==
  LET s == getTime(getShiftStartTime(shift))
      e == getTime(getShiftEndTime(shift))
  IN IF s.nan \/ e.nan THEN NaN ELSE Num(e.v - s.v)

\* does modelInput.vehicles.forEach((vehicle) => ...) reach the two set()
\* calls for this vehicle
HasUtilization(vehicle) ==
  /\ vehicle.shifts # <<>>
  /\ Truthy(getShiftStartTime(vehicle.shifts[1]))
  /\ Truthy(getShiftEndTime(vehicle.shifts[1]))
  /\ ~ShiftDuration(vehicle.shifts[1]).nan
  /\ ShiftDuration(vehicle.shifts[1]).v > 0

UtilizedIds(modelIn) ==
  {modelIn.vehicles[i].id : i \in {j \in 1..Len(modelIn.vehicles) :
                                     HasUtilization(modelIn.vehicles[j])}}

\* the last vehicle with this id for which set() is called (Map.set
\* overwrites)
LastUtilized(modelIn, id) ==
  LET js == {j \in 1..Len(modelIn.vehicles) :
               modelIn.vehicles[j].id = id /\ HasUtilization(modelIn.vehicles[j])}
  IN modelIn.vehicles[CHOOSE j \in js : \A k \in js : k <= j]

BaselineUtil(modelIn, vehicle, totalWorkTimeBaseline) ==
  NUtil(Num(totalWorkTimeBaseline), Len(modelIn.vehicles),
        ShiftDuration(vehicle.shifts[1]).v)

OptimizedUtil(modelIn, plan, vehicle, totalWorkTimeBaseline) ==
  IF plan.present /\ plan.hasRoutes
  THEN LET r == FindRoute(plan.routes, vehicle.id, 1)
       IN IF r # 0
          THEN NUtil(RouteWorkTime(modelIn, plan.routes[r].visits, 1), 1,
                     ShiftDuration(vehicle.shifts[1]).v)
          ELSE Num(0)
  ELSE BaselineUtil(modelIn, vehicle, totalWorkTimeBaseline)

RECURSIVE NSum(_, _)
NSum(f, S) ==
  IF S = {} THEN Num(0)
  ELSE LET x == CHOOSE y \in S : TRUE
       IN NAdd(f[x], NSum(f, S \ {x}))

\* Math.round(sum / (size || 1))
AvgUtil(util) ==
  LET sum == NSum(util, DOMAIN util)
      size == Cardinality(DOMAIN util)
  IN IF sum.nan THEN NaN
     ELSE Num(RoundDiv(sum.v, IF size = 0 THEN 1 ELSE size))

\* Math.round(optimizedTravelTime || baselineTravelTime)
ReportedTravel(optimizedTravelTime, baselineTravelTime) ==
  OrDefault(optimizedTravelTime, baselineTravelTime)

\* the baseline-side totals [assigned, travel, service, wait]
BaselineTotals(modelIn) ==
  [assigned |-> Len(modelIn.visits),
   travel |-> Len(modelIn.visits) * avgTravelMinutes,
   service |-> BaselineServiceTime(modelIn.visits, 1),
   wait |-> Len(modelIn.visits) * BaselineWaitBuffer]

\* totalWorkTimeBaseline
WorkTimeBaseline(base) == base.service + base.travel + base.wait

\* totalWorkTimeOptimized
WorkTimeOptimized(opt) == NAdd(Num(opt.service + opt.travel), opt.wait)

\* utilizationByResourceBaseline
UtilBaseline(modelIn, totalWorkTimeBaseline) ==
  [id \in UtilizedIds(modelIn) |->
     BaselineUtil(modelIn, LastUtilized(modelIn, id), totalWorkTimeBaseline)]

\* utilizationByResourceOptimized
UtilOptimized(modelIn, plan, totalWorkTimeBaseline) ==
  [id \in UtilizedIds(modelIn) |->
     OptimizedUtil(modelIn, plan, LastUtilized(modelIn, id),
                   totalWorkTimeBaseline)]

\* the object computeKpis returns, from the totals and the utilization maps
KpiRecord(base, opt, utilBaseline, utilOptimized) ==
  [totalVisitsBaseline |-> base.assigned,
   totalVisitsOptimized |-> base.assigned,
   assignedVisitsBaseline |-> base.assigned,
   assignedVisitsOptimized |-> opt.assigned,
   unassignedVisitsBaseline |-> 0,
   unassignedVisitsOptimized |-> opt.unassigned,
   totalTravelTimeBaseline |-> Num(base.travel),
   totalTravelTimeOptimized |-> Num(ReportedTravel(opt.travel, base.travel)),
   totalServiceTimeBaseline |-> Num(base.service),
   totalServiceTimeOptimized |-> Num(OrDefault(opt.service, base.service)),
   totalWaitTimeBaseline |-> Num(base.wait),
   totalWaitTimeOptimized |-> opt.wait,
   totalWorkTimeBaseline |-> Num(WorkTimeBaseline(base)),
   totalWorkTimeOptimized |-> WorkTimeOptimized(opt),
   totalCostBaseline |-> NCost(Num(WorkTimeBaseline(base)), HOURLY_RATE_SEK),
   totalCostOptimized |-> NCost(WorkTimeOptimized(opt), HOURLY_RATE_SEK),
   utilizationByResourceBaseline |-> utilBaseline,
   utilizationByResourceOptimized |-> utilOptimized,
   avgUtilizationBaseline |-> AvgUtil(utilBaseline),
   avgUtilizationOptimized |-> AvgUtil(utilOptimized)]

\* computeKpis once the baseline totals are known
KpisFrom(modelIn, plan, base) ==
  KpiRecord(base, OptimizedTotals(modelIn, plan, base),
            UtilBaseline(modelIn, WorkTimeBaseline(base)),
            UtilOptimized(modelIn, plan, WorkTimeBaseline(base)))

computeKpis(modelIn, plan, baseline, optimized) ==
  KpisFrom(modelIn, plan, BaselineTotals(modelIn))

----------------------------------------------------------------------------
(* Optimized schedule mapping *)

\* visitMap.get(visitId): the last visit of the model input with that id
\* (Map.set overwrites); its index, 0 when there is none
LookupVisit(modelIn, visitId) ==
  LET js == {j \in 1..Len(modelIn.visits) : modelIn.visits[j].id = visitId}
  IN IF js = {} THEN 0 ELSE CHOOSE j \in js : \A k \in js : k <= j

VisitAt(modelIn, j) ==
  IF j = 0 THEN [id |-> "", name |-> "", serviceDuration |-> NoDuration]
  ELSE modelIn.visits[j]

\* visitDetails?.serviceDuration
LookupDuration(modelIn, visitId) ==
  VisitAt(modelIn, LookupVisit(modelIn, visitId)).serviceDuration

\* visitDetails?.name
LookupName(modelIn, visitId) ==
  VisitAt(modelIn, LookupVisit(modelIn, visitId)).name

\* plannedVisit.id || plannedVisit.visitId || `unknown-${visitIndex}`
PlannedVisitId(pv, visitIndex) ==
  IF pv.id # "" THEN pv.id
  ELSE IF pv.visitId # "" THEN pv.visitId
  ELSE "unknown-" \o ToString(visitIndex)

\* plannedVisit.arrivalTime || plannedVisit.startServiceTime
PlannedStart(pv) == OrElse(pv.arrivalTime, pv.startServiceTime)

FallbackGap == 15

\* an end derived with the default duration, whatever the visit's
DerivedEndMutant(startDate, serviceDuration) ==
  addMinutes(startDate, DefaultServiceDuration)

\* addMinutes(startDate, serviceDuration)
DerivedEnd(startDate, serviceDuration) == addMinutes(startDate, serviceDuration)

\* new Date(endDate.getTime() - serviceDuration * 60000)
DerivedStart(endDate, serviceDuration) == endDate - serviceDuration

\* a test that lets a degenerate range (start = end) through
InvertedMutant(startTime, endTime) == startTime > endTime

\* if (startTime >= endTime)
Inverted(startTime, endTime) == startTime >= endTime

\* "If we have a start but no end, calculate end from service duration"
ResolvedEnd(start0, end0, serviceDuration) ==
  IF Truthy(start0) /\ ~Truthy(end0) /\ start0.k = "iso"
  THEN toISOString(DerivedEnd(start0.t, serviceDuration))
  ELSE end0

\* "If we have an end but no start, calculate start from service duration"
ResolvedStart(start0, end0, serviceDuration) ==
  IF ~Truthy(start0) /\ Truthy(end0) /\ end0.k = "iso"
  THEN toISOString(DerivedStart(end0.t, serviceDuration))
  ELSE start0

\* "Fix inverted dates"
FixedEnd(startDateStr, endDateStr, serviceDuration) ==
  IF Inverted(startDateStr.t, endDateStr.t)
  THEN toISOString(addMinutes(startDateStr.t, serviceDuration))
  ELSE endDateStr

\* details?.name || visitId
EventName(name, visitId) == IF name # "" THEN name ELSE visitId

\* the end of the loop body, from "Parse and validate dates" on: the event
\* is skipped when a date does not parse, else pushed with its end fixed
PlannedVisitPush(modelIn, route, pv, visitIndex, currentTime, visitId, serviceDuration, startDateStr, endDateStr) ==
  IF startDateStr.k # "iso" \/ endDateStr.k # "iso"
  THEN [threw |-> FALSE, currentTime |-> currentTime, events |-> <<>>]
  ELSE [threw |-> FALSE,
        currentTime |->
          getTime(FixedEnd(startDateStr, endDateStr, serviceDuration)),
        events |->
          <<[id |-> "opt-" \o visitId \o "-" \o ToString(visitIndex),
             resourceId |-> route.vehicleId,
             startDate |-> startDateStr,
             endDate |-> FixedEnd(startDateStr, endDateStr, serviceDuration),
             name |-> EventName(LookupName(modelIn, visitId), visitId),
             eventType |-> "visit",
             status |-> "optimized",
             visitId |-> visitId,
             travelTime |->
               parseDurationToMinutes(pv.travelTimeFromPrevious)]>>]

\* "FALLBACK: If no dates at all, generate sequential times": clock is
\* currentTime, 15 minutes later for every visit but the route's first;
\* toISOString() raises a RangeError when it is an invalid date
PlannedVisitFallback(modelIn, route, pv, visitIndex, visitId, serviceDuration, clock) ==
  IF clock.nan
  THEN [threw |-> TRUE, currentTime |-> clock, events |-> <<>>]
  ELSE PlannedVisitPush(modelIn, route, pv, visitIndex,
                        Num(addMinutes(clock.v, serviceDuration)),
                        visitId, serviceDuration,
                        toISOString(clock.v),
                        toISOString(addMinutes(clock.v, serviceDuration)))

PlannedVisitResolved(modelIn, route, pv, visitIndex, currentTime, visitId, serviceDuration, startDateStr, endDateStr) ==
  IF ~Truthy(startDateStr) \/ ~Truthy(endDateStr)
  THEN PlannedVisitFallback(modelIn, route, pv, visitIndex, visitId,
         serviceDuration,
         IF visitIndex > 0 THEN NAdd(currentTime, Num(FallbackGap))
         ELSE currentTime)
  ELSE PlannedVisitPush(modelIn, route, pv, visitIndex, currentTime,
                        visitId, serviceDuration, startDateStr, endDateStr)

PlannedVisitTimed(modelIn, route, pv, visitIndex, currentTime, visitId, serviceDuration) ==
  PlannedVisitResolved(modelIn, route, pv, visitIndex, currentTime, visitId,
    serviceDuration,
    ResolvedStart(PlannedStart(pv), pv.departureTime, serviceDuration),
    ResolvedEnd(PlannedStart(pv), pv.departureTime, serviceDuration))

PlannedVisitNamed(modelIn, route, pv, visitIndex, currentTime, visitId) ==
  PlannedVisitTimed(modelIn, route, pv, visitIndex, currentTime, visitId,
                    ServiceMinutes(LookupDuration(modelIn, visitId)))

\* the body of route.visits.forEach((plannedVisit, visitIndex) => ...),
\* visitIndex from 0, entered with the running currentTime (a date that may
\* be invalid): [threw, currentTime, events], events being what it pushes
PlannedVisitStep(modelIn, route, pv, visitIndex, currentTime) ==
  PlannedVisitNamed(modelIn, route, pv, visitIndex, currentTime,
                    PlannedVisitId(pv, visitIndex))

\* route.visits.forEach(...): [threw, events]
RECURSIVE RouteVisitLoop(_, _, _, _)
RouteVisitLoop(modelIn, route, visitIndex, currentTime) ==
  IF visitIndex >= Len(route.visits)
  THEN [threw |-> FALSE, events |-> <<>>]
  ELSE LET step == PlannedVisitStep(modelIn, route,
                                    route.visits[visitIndex + 1],
                                    visitIndex, currentTime)
       IN IF step.threw THEN [threw |-> TRUE, events |-> <<>>]
          ELSE LET rest == RouteVisitLoop(modelIn, route, visitIndex + 1,
                                          step.currentTime)
               IN [threw |-> rest.threw, events |-> step.events \o rest.events]

\* getShiftStartTime(modelInput.vehicles[0]?.shifts[0])
\*   || new Date().toISOString()
\* read only when the first vehicle exists and has a shift
FallbackBaseTime(modelIn, clockReading) ==
  OrElse(getShiftStartTime(modelIn.vehicles[1].shifts[1]),
         toISOString(clockReading))

\* getShiftStartTime(undefined) raises a TypeError
FallbackThrows(modelIn) ==
  modelIn.vehicles = <<>> \/ modelIn.vehicles[1].shifts = <<>>

\* a seed that ignores the shift start and always reads the clock
RouteClockSeedMutant(modelIn) == Num(now.routes)

\* let currentTime = new Date(fallbackBaseTime), once per route
RouteClockSeed(modelIn) == getTime(FallbackBaseTime(modelIn, now.routes))

\* routePlan.routes.forEach((route, routeIndex) => ...): [threw, events]
RECURSIVE RouteLoop(_, _, _, _)
RouteLoop(modelIn, routes, r, events) ==
  IF r > Len(routes) THEN [threw |-> FALSE, events |-> events]
  ELSE LET one == RouteVisitLoop(modelIn, routes[r], 0,
                                 RouteClockSeed(modelIn))
       IN IF one.threw THEN [threw |-> TRUE, events |-> <<>>]
          ELSE RouteLoop(modelIn, routes, r + 1, events \o one.events)

UnassignedStride == 45

\* a stride counted from 1 instead of 0
UnassignedStartMutant(baseTime, index) ==
  addMinutes(baseTime, (index + 1) * UnassignedStride)

\* addMinutes(baseTime, index * 45)
UnassignedStart(baseTime, index) ==
  addMinutes(baseTime, index * UnassignedStride)

\* the body of routePlan.unassignedVisits.forEach((visit, index) => ...)
UnassignedEvents(modelIn, visit, index, baseTime) ==
  LET startDate == UnassignedStart(baseTime, index)
      duration == ServiceMinutes(LookupDuration(modelIn, visit.id))
      eventEndDate == addMinutes(startDate, duration)
  IN IF startDate >= eventEndDate THEN <<>>
     ELSE <<[id |-> "unassigned-" \o visit.id,
             resourceId |-> "unassigned",
             startDate |-> toISOString(startDate),
             endDate |-> toISOString(eventEndDate),
             name |-> EventName(visit.name,
                                EventName(LookupName(modelIn, visit.id),
                                          visit.id)),
             eventType |-> "visit",
             status |-> "optimized",
             visitId |-> visit.id,
             travelTime |-> 0]>>

RECURSIVE UnassignedLoop(_, _, _, _)
UnassignedLoop(modelIn, unassigned, index, baseTime) ==
  IF index >= Len(unassigned) THEN <<>>
  ELSE UnassignedEvents(modelIn, unassigned[index + 1], index, baseTime)
       \o UnassignedLoop(modelIn, unassigned, index + 1, baseTime)

\* routePlan.unassignedVisits && routePlan.unassignedVisits.length > 0
HasUnassigned(plan) == Len(plan.unassignedVisits) > 0

UnassignedResource == [id |-> "unassigned", name |-> "Unassigned",
                       shiftStart |-> Absent, shiftEnd |-> Absent]

mapRoutePlanToOptimizedSchedule(plan, modelIn) ==
  IF ResourcesThrow(modelIn) THEN Threw
  ELSE IF plan.hasRoutes /\ FallbackThrows(modelIn) THEN Threw
  ELSE LET routed == IF plan.hasRoutes
                     THEN RouteLoop(modelIn, plan.routes, 1, <<>>)
                     ELSE [threw |-> FALSE, events |-> <<>>]
       IN IF routed.threw THEN Threw
          ELSE IF ~HasUnassigned(plan)
          THEN Schedule(VehicleResources(modelIn), routed.events)
          ELSE IF FallbackThrows(modelIn) THEN Threw
          ELSE LET baseTime ==
                     getTime(FallbackBaseTime(modelIn, now.unassigned))
               IN \* toISOString() of an invalid date raises a RangeError
                  IF baseTime.nan THEN Threw
                  ELSE Schedule(
                         Append(VehicleResources(modelIn), UnassignedResource),
                         routed.events
                           \o UnassignedLoop(modelIn, plan.unassignedVisits,
                                             0, baseTime.v))

----------------------------------------------------------------------------
(* Inputs *)

\* bounds of the explored inputs
MaxVehicles == 2
MaxVisits == 3
MaxRoutes == 2
\* planned visits in one route plan, all its routes together
MaxPlanned == 3

HM(h, m) == h * 60 + m

SeqsUpTo(S, n) == UNION {[1..k -> S] : k \in 0..n}

Shift(startTime, endTime, minStartTime, maxEndTime) ==
  [startTime |-> startTime, endTime |-> endTime,
   minStartTime |-> minStartTime, maxEndTime |-> maxEndTime]

DayShift == Shift(At(HM(8, 0)), At(HM(16, 0)), Absent, Absent)
SolverShift == Shift(Absent, Absent, At(HM(7, 0)), At(HM(15, 0)))
InvertedShift == Shift(At(HM(16, 0)), At(HM(8, 0)), Absent, Absent)
BadStartShift == Shift(Bad, At(HM(16, 0)), Absent, Absent)
NoStartShift == Shift(Absent, At(HM(16, 0)), Absent, Absent)
MixedShift == Shift(At(HM(8, 0)), Absent, Absent, At(HM(16, 0)))
NightShift == Shift(At(HM(23, 0)), At(HM(31, 0)), Absent, Absent)

\* the shift lists a vehicle is given
ShiftLists ==
  {<<>>, <<DayShift>>, <<SolverShift>>, <<InvertedShift>>, <<BadStartShift>>,
   <<NoStartShift>>, <<MixedShift>>, <<NightShift>>,
   <<DayShift, SolverShift>>}

PT1H == Dur(<<PTtok, Tok(1, "H")>>)
PT20M30S == Dur(<<PTtok, Tok(20, "M"), Tok(30, "S")>>)
PT10M == Dur(<<PTtok, Tok(10, "M")>>)
PT25M == Dur(<<PTtok, Tok(25, "M")>>)
PT40M == Dur(<<PTtok, Tok(40, "M")>>)

\* the service durations a visit is given
VisitDurations == {NoDuration, PT1H, PT20M30S}

\* vehicles t1, t2, ... with the given shift lists; the first one is named
Vehicles(shiftLists) ==
  [i \in 1..Len(shiftLists) |->
     [id |-> "t" \o ToString(i),
      name |-> IF i = 1 THEN "Anna" ELSE "",
      shifts |-> shiftLists[i]]]

\* visits v1, v2, ... with the given service durations
Visits(durations) ==
  [i \in 1..Len(durations) |->
     [id |-> "v" \o ToString(i),
      name |-> "Visit " \o ToString(i),
      serviceDuration |-> durations[i]]]

Model(shiftLists, durations) ==
  [vehicles |-> Vehicles(shiftLists), visits |-> Visits(durations)]

\* n vehicles with one shift each, given by the dispatcher and by the
\* solver in turn
StandardShiftLists(n) ==
  [i \in 1..n |-> IF i % 2 = 1 THEN <<DayShift>> ELSE <<SolverShift>>]

\* n visits of one hour, of no stated duration and of 20 minutes 30 seconds
\* in turn
StandardDurations(n) ==
  [i \in 1..n |-> <<PT1H, NoDuration, PT20M30S>>[((i - 1) % 3) + 1]]

\* the model inputs explored: every fleet with the standard visits, and the
\* standard fleets with every list of visits
ModelInputs ==
  {Model(sl, StandardDurations(n)) :
     sl \in SeqsUpTo(ShiftLists, MaxVehicles), n \in 0..MaxVisits}
  \cup
  {Model(StandardShiftLists(v), ds) :
     v \in 0..MaxVehicles, ds \in SeqsUpTo(VisitDurations, MaxVisits)}

NoMetrics ==
  [present |-> FALSE,
   assignedVisits |-> [def |-> FALSE, v |-> 0],
   unassignedVisits |-> [def |-> FALSE, v |-> 0],
   totalTravelTime |-> NoDuration, totalServiceTime |-> NoDuration]

Metrics(assigned, unassigned, travel, service) ==
  [present |-> TRUE,
   assignedVisits |-> assigned, unassignedVisits |-> unassigned,
   totalTravelTime |-> travel, totalServiceTime |-> service]

Given(v) == [def |-> TRUE, v |-> v]
NotGiven == [def |-> FALSE, v |-> 0]

\* routePlan = null
NoPlan ==
  [present |-> FALSE, hasRoutes |-> FALSE, routes |-> <<>>,
   unassignedVisits |-> <<>>, metrics |-> NoMetrics]

Planned(id, visitId, arrivalTime, startServiceTime, departureTime, travel) ==
  [id |-> id, visitId |-> visitId, arrivalTime |-> arrivalTime,
   startServiceTime |-> startServiceTime, departureTime |-> departureTime,
   travelTimeFromPrevious |-> travel]

\* planned visits by what they carry
PvNone == Planned("v1", "", Absent, Absent, Absent, NoDuration)
PvFull ==
  Planned("v2", "", At(HM(9, 0)), At(HM(9, 5)), At(HM(9, 40)), PT10M)
PvStartService ==
  Planned("", "v1", Absent, At(HM(10, 0)), Absent, NoDuration)
PvArrival == Planned("v3", "", At(HM(11, 0)), Absent, Absent, PT25M)
PvDeparture == Planned("v1", "", Absent, Absent, At(HM(12, 0)), NoDuration)
PvInverted ==
  Planned("v1", "", At(HM(10, 0)), Absent, At(HM(9, 0)), NoDuration)
PvDegenerate ==
  Planned("v3", "", Absent, At(HM(10, 0)), At(HM(10, 0)), NoDuration)
PvBadArrival == Planned("v2", "v2", Bad, At(HM(9, 0)), Absent, NoDuration)
PvBadDeparture == Planned("v3", "", At(HM(9, 0)), Absent, Bad, NoDuration)
PvNoId == Planned("", "", Absent, Absent, Absent, NoDuration)
PvMismatch ==
  Planned("v1", "v3", At(HM(9, 0)), At(HM(9, 0)), At(HM(10, 0)), NoDuration)
PvStranger == Planned("zz", "", At(HM(13, 0)), Absent, Absent, NoDuration)

RouteAttr(vehicleId, totalTravelTime) ==
  [vehicleId |-> vehicleId, totalTravelTime |-> totalTravelTime]

Unassigned(id, name) == [id |-> id, name |-> name]

StandardModel == Model(StandardShiftLists(2), StandardDurations(3))

ClockAt(routes, unassigned) == [routes |-> routes, unassigned |-> unassigned]

\* the families of route plans explored: each gives the model inputs, the
\* planned visits, the attributes of the routes in turn, the unassigned
\* lists, the metrics, whether the plan may lack its routes field, and the
\* clock readings
Families ==
  {[models |-> {StandardModel},
    planned |-> {PvNone, PvFull, PvStartService, PvDeparture},
    attrs |-> <<RouteAttr("t1", NoDuration), RouteAttr("t2", PT40M)>>,
    unassigned |-> {<<>>},
    metrics |-> {NoMetrics},
    routeless |-> FALSE,
    clocks |-> {ClockAt(HM(6, 0), HM(6, 0))}],
   [models |-> {StandardModel},
    planned |-> {PvInverted, PvDegenerate, PvBadArrival, PvBadDeparture},
    attrs |-> <<RouteAttr("t1", NoDuration), RouteAttr("t9", NoDuration)>>,
    unassigned |-> {<<>>},
    metrics |-> {NoMetrics},
    routeless |-> FALSE,
    clocks |-> {ClockAt(HM(6, 0), HM(6, 0))}],
   [models |-> {StandardModel},
    planned |-> {PvNoId, PvMismatch, PvStranger, PvArrival},
    attrs |-> <<RouteAttr("t2", NoDuration), RouteAttr("t2", PT40M)>>,
    unassigned |-> {<<>>},
    metrics |-> {NoMetrics},
    routeless |-> FALSE,
    clocks |-> {ClockAt(HM(6, 0), HM(6, 0))}],
   [models |-> {Model(<<<<NoStartShift>>>>, <<PT1H, NoDuration>>),
                Model(<<<<BadStartShift>>>>, <<PT1H, NoDuration>>),
                Model(<<>>, <<PT1H, NoDuration>>)},
    planned |-> {PvNone, PvFull},
    attrs |-> <<RouteAttr("t1", NoDuration)>>,
    unassigned |-> {<<>>, <<Unassigned("v2", "")>>},
    metrics |-> {NoMetrics},
    routeless |-> TRUE,
    clocks |-> {ClockAt(HM(6, 0), HM(6, 0)), ClockAt(HM(6, 0), HM(6, 1))}],
   [models |-> {StandardModel},
    planned |-> {PvNone, PvFull},
    attrs |-> <<RouteAttr("t1", NoDuration)>>,
    unassigned |-> {<<>>, <<Unassigned("v3", "")>>,
                    <<Unassigned("v3", "Boiler"), Unassigned("zz", ""),
                      Unassigned("v1", "")>>},
    metrics |-> {NoMetrics,
                 Metrics(Given(7), Given(2), PT40M, PT1H),
                 Metrics(NotGiven, Given(0), NoDuration, NoDuration)},
    routeless |-> TRUE,
    clocks |-> {ClockAt(HM(6, 0), HM(6, 0))}]}

\* the attributes of the r-th route of a family's plans
AttrOf(family, r) == family.attrs[((r - 1) % Len(family.attrs)) + 1]

\* the route lists of a family from the r-th route on: routes up to the
\* MaxRoutes-th, holding at most budget planned visits together
RECURSIVE RouteLists(_, _, _)
RouteLists(family, r, budget) ==
  IF r > MaxRoutes THEN {<<>>}
  ELSE {<<>>} \cup
       UNION {{<<[vehicleId |-> AttrOf(family, r).vehicleId,
                  totalTravelTime |-> AttrOf(family, r).totalTravelTime,
                  visits |-> vs]>> \o rest :
                 rest \in RouteLists(family, r + 1, budget - Len(vs))} :
              vs \in SeqsUpTo(family.planned, budget)}

RoutePlans(family) ==
  {[present |-> TRUE, hasRoutes |-> TRUE, routes |-> rs,
    unassignedVisits |-> u, metrics |-> m] :
     rs \in RouteLists(family, 1, MaxPlanned),
     u \in family.unassigned, m \in family.metrics}
  \cup
  (IF family.routeless
   THEN {[present |-> TRUE, hasRoutes |-> FALSE, routes |-> <<>>,
          unassignedVisits |-> u, metrics |-> m] :
           u \in family.unassigned, m \in family.metrics}
   ELSE {})

----------------------------------------------------------------------------
(* The mapping layer as a state machine: the inputs are drawn in Init, each
   action applies one of the functions to them *)

NoKpis == computeKpis(Model(<<>>, <<>>), NoPlan, NoSchedule, NoSchedule)

\* the page is not part of the run: its cells as constructed
PageUnused ==
  /\ status = "idle"
  /\ errorMessage = ""
  /\ currentView = "baseline"
  /\ selectedDatasetId = ""
  /\ inputModel = Null
  /\ routePlanId = ""
  /\ activeStatusFilters = {"oplanerad", "planerad"}
  /\ loops = <<>>
  /\ timers = <<>>
  /\ loads = <<>>
  /\ posts = 0
  /\ solver = <<>>
  /\ polls = <<>>
  /\ wallClock = 0

InitOutputs ==
  /\ pc = "start"
  /\ baselineSchedule = NoSchedule
  /\ optimizedSchedule = NoSchedule
  /\ simulatedSchedule = NoSchedule
  /\ kpis = NoKpis
  /\ durationString = NoDuration
  /\ parsedMinutes = 0
  /\ PageUnused

\* a dataset is loaded and no route plan exists yet
InitLoaded ==
  /\ modelInput \in ModelInputs
  /\ routePlan = NoPlan
  /\ now = ClockAt(HM(6, 0), HM(6, 0))

\* a route plan has been received for the loaded dataset
InitPlanned ==
  \E family \in Families :
    /\ modelInput \in family.models
    /\ routePlan \in RoutePlans(family)
    /\ now \in family.clocks

Init == (InitLoaded \/ InitPlanned) /\ InitOutputs

Baseline ==
  /\ pc = "start"
  /\ ~routePlan.present
  /\ baselineSchedule' = mapInputToBaselineSchedule(modelInput)
  /\ pc' = "baseline"
  /\ UNCHANGED <<parseVars, pageVars>>
  /\ UNCHANGED <<modelInput, routePlan, now, optimizedSchedule,
                 simulatedSchedule, kpis>>

\* simulateLocally runs only with a baseline schedule in place
Simulate ==
  /\ pc = "baseline"
  /\ ~baselineSchedule.threw
  /\ simulatedSchedule' = simulateOptimizedSchedule(modelInput, baselineSchedule)
  /\ pc' = "simulated"
  /\ UNCHANGED <<parseVars, pageVars>>
  /\ UNCHANGED <<modelInput, routePlan, now, baselineSchedule,
                 optimizedSchedule, kpis>>

Optimized ==
  /\ pc = "start"
  /\ routePlan.present
  /\ optimizedSchedule' = mapRoutePlanToOptimizedSchedule(routePlan, modelInput)
  /\ pc' = "optimized"
  /\ UNCHANGED <<parseVars, pageVars>>
  /\ UNCHANGED <<modelInput, routePlan, now, baselineSchedule,
                 simulatedSchedule, kpis>>

Kpis ==
  /\ pc = "start"
  /\ kpis' = computeKpis(modelInput, routePlan, baselineSchedule,
                         optimizedSchedule)
  /\ pc' = "kpis"
  /\ UNCHANGED <<parseVars, pageVars>>
  /\ UNCHANGED <<modelInput, routePlan, now, baselineSchedule,
                 optimizedSchedule, simulatedSchedule>>

Next == Baseline \/ Simulate \/ Optimized \/ Kpis

Spec == Init /\ [][Next]_vars

----------------------------------------------------------------------------
(* The duration parser on its own: the argument is drawn in ParseInit, the
   one action is a call *)

\* the most tokens a duration string is cut into
MaxTokens == 4

\* any stretch of the string that is neither "PT" nor digits and a unit
Junk == [n |-> 0, u |-> "x"]

DurationTokens ==
  {PTtok, Junk} \cup {Tok(n, u) : n \in {0, 1, 61}, u \in {"H", "M", "S"}}

\* undefined, the empty string and the strings of up to MaxTokens tokens
DurationStrings ==
  {NoDuration} \cup {Dur(toks) : toks \in SeqsUpTo(DurationTokens, MaxTokens)}

ParseInit ==
  /\ pc = "start"
  /\ durationString \in DurationStrings
  /\ parsedMinutes = 0
  /\ PageUnused
  /\ modelInput = Model(<<>>, <<>>)
  /\ routePlan = NoPlan
  /\ now = ClockAt(HM(6, 0), HM(6, 0))
  /\ baselineSchedule = NoSchedule
  /\ optimizedSchedule = NoSchedule
  /\ simulatedSchedule = NoSchedule
  /\ kpis = NoKpis

Parse ==
  /\ pc = "start"
  /\ parsedMinutes' = parseDurationToMinutes(durationString)
  /\ pc' = "parsed"
  /\ UNCHANGED <<durationString, mapVars, pageVars>>

ParseNext == Parse

ParseSpec == ParseInit /\ [][ParseNext]_vars

----------------------------------------------------------------------------
(* The dashboard page (app/page.tsx): the handlers of the page, the polling
   effect and the callbacks of the requests and timers they start.  A
   handler's state updates are applied together and followed by one render;
   the polling effect runs after a render that changed one of its
   dependencies.

   The loading overlay shown while the status is "optimizing" or "polling"
   covers the page but disables no control (the controls stay reachable
   from the keyboard, the new-visit dialog is stacked above it), so the
   handlers are guarded by what the code checks: the disabled attribute of
   the optimize button and the early returns of the handlers. *)

POLL_INTERVAL_MS == 2000

\* the polling ceiling in milliseconds: 5 * 60 * 1000 in the page, taken
\* here as a few poll intervals so that a run reaches it
POLL_TIMEOUT_MS == 6000

\* Math.ceil(POLL_TIMEOUT_MS / POLL_INTERVAL_MS)
maxPolls == CeilDiv(POLL_TIMEOUT_MS, POLL_INTERVAL_MS)

\* the user actions explored in a session, and the route plans submitted
MaxUserActions == 3
MaxRuns == 2

TimeoutMessage == "Optimization timed out. Please try again."

DatasetIds == {"local-demo", "demo-1"}

\* the local fixture data/demoInput.json
LocalDemoModel == Model(<<<<DayShift>>>>, <<PT1H, NoDuration>>)

\* the model input a dataset id stands for
DatasetModel(id) == IF id = "local-demo" THEN LocalDemoModel ELSE StandardModel

\* how GET /api/timefold/demo-data/{id} ends: with the dataset, with the
\* local fixture in place of a remote dataset that could not be fetched, or
\* with an error
LoadOutcomes(id) ==
  IF id = "local-demo" THEN {"served", "failed"}
  ELSE {"served", "substituted", "failed"}

\* data.modelInput of a response with success: true
ServedModel(id, outcome) ==
  IF outcome = "substituted" THEN LocalDemoModel ELSE DatasetModel(id)

TerminalStatuses ==
  {"SOLVING_COMPLETED", "SOLVING_INCOMPLETE", "SOLVING_FAILED",
   "DATASET_INVALID", "EXCEPTION"}

isSolverComplete(solverStatus) == solverStatus \in TerminalStatuses

\* the id the solver gives the k-th route plan of the session, and back
PlanId(k) == "plan-" \o ToString(k)
PlanIndex(id) == CHOOSE k \in 1..MaxRuns + 1 : PlanId(k) = id

\* the route plan the solver holds under an id: routes once it has solved
ServerPlan(id, solverStatus) ==
  [present |-> TRUE,
   hasRoutes |-> solverStatus \in {"SOLVING_COMPLETED", "SOLVING_INCOMPLETE"},
   routes |-> IF solverStatus \in {"SOLVING_COMPLETED", "SOLVING_INCOMPLETE"}
              THEN <<[vehicleId |-> "t1", totalTravelTime |-> NoDuration,
                      visits |-> <<PvFull, PvNone>>]>>
              ELSE <<>>,
   unassignedVisits |-> <<>>,
   metrics |-> NoMetrics,
   id |-> id,
   solverStatus |-> solverStatus]

\* routePlan.validationErrors as the solver may report it with the status
\* DATASET_INVALID: missing, or one or two texts
ValidationErrorLists ==
  {<<>>, <<"Visit v1 has no location">>,
   <<"Visit v1 has no location", "Vehicle t2 has no shift">>}

\* errorMsg of the DATASET_INVALID branch of the route
DatasetInvalidMessage(validationErrors) ==
  IF Len(validationErrors) > 0
  THEN "Dataset validation failed: " \o validationErrors[1]
       \o (IF Len(validationErrors) > 1
           THEN " (and " \o ToString(Len(validationErrors) - 1)
                \o " more errors)"
           ELSE "")
  ELSE "Dataset is invalid. The locations may be outside the supported map coverage."

\* GET /api/timefold/route-plans/{id}: the body of the response
PollAnswer(id, solverStatus, validationErrors) ==
  [success |-> solverStatus # "DATASET_INVALID",
   error |-> IF solverStatus = "DATASET_INVALID"
             THEN DatasetInvalidMessage(validationErrors) ELSE "",
   routePlan |-> ServerPlan(id, solverStatus),
   isComplete |-> isSolverComplete(solverStatus)]

NoAnswer == [success |-> FALSE, error |-> "", routePlan |-> NoPlan, isComplete |-> FALSE]

\* one run of the polling effect that passed its guard: the values its
\* closure holds, its pollCount, whether its cleanup has run (torn), and
\* where pollForResults stands: "fetching" (request sent), "answered"
\* (response on its way back), "waiting" (timer pending).  beforeLoad
\* records that a dataset load has completed since the loop began.
NewLoop(id, model, baseline) ==
  [routePlanId |-> id, inputModel |-> model, baselineSchedule |-> baseline,
   pollCount |-> 0, torn |-> FALSE, phase |-> "fetching", response |-> NoAnswer,
   beforeLoad |-> FALSE]

\* the loops or timers pending when a dataset load completes
OlderThanLoad(pending) ==
  [i \in 1..Len(pending) |-> [pending[i] EXCEPT !.beforeLoad = TRUE]]

\* return () => { if (timeoutId) clearTimeout(timeoutId) } of the effect
\* runs whose cleanup has not run yet: a pending timer is cleared, a fetch
\* in flight is not
Cleanup(ls) ==
  LET kept == SelectSeq(ls, LAMBDA l : l.torn \/ l.phase # "waiting")
  IN [i \in 1..Len(kept) |-> [kept[i] EXCEPT !.torn = TRUE]]

\* [status, routePlanId, inputModel, baselineSchedule] differs from the
\* last render
DepsChanged(c) ==
  <<c.status, c.routePlanId, c.inputModel, c.baselineSchedule>>
    # <<status, routePlanId, inputModel, baselineSchedule>>

\* if (status !== "polling" || !routePlanId) return
EffectStarts(c) ==
  DepsChanged(c) /\ c.status = "polling" /\ c.routePlanId # ""

\* the polling effect after a render with the cells c, on the loops ls
PollingEffect(c, ls) ==
  IF ~DepsChanged(c) THEN ls
  ELSE IF EffectStarts(c)
       THEN Append(Cleanup(ls),
                   NewLoop(c.routePlanId, c.inputModel, c.baselineSchedule))
       ELSE Cleanup(ls)

\* one more poll request sent for the route plan
Requested(ps, id) == [ps EXCEPT ![PlanIndex(id)].sent = @ + 1]

\* the response the loop holds carries a terminal solver status
TerminalAnswer(l) == isSolverComplete(l.response.routePlan.solverStatus)

\* the page has handled a response of loop l
Answered(ps, l) ==
  IF TerminalAnswer(l)
  THEN [ps EXCEPT ![PlanIndex(l.routePlanId)].ended = TRUE]
  ELSE ps

\* the cells of the page a handler reads and sets
Cells ==
  [status |-> status, errorMessage |-> errorMessage,
   currentView |-> currentView, selectedDatasetId |-> selectedDatasetId,
   inputModel |-> inputModel, routePlanId |-> routePlanId,
   baselineSchedule |-> baselineSchedule,
   optimizedSchedule |-> optimizedSchedule,
   routePlan |-> routePlan, kpis |-> kpis,
   activeStatusFilters |-> activeStatusFilters]

\* the state updates c of a handler are applied, the page renders and the
\* polling effect runs on the loops ls; ps counts the requests so far
Commit(c, ls, ps) ==
  /\ status' = c.status
  /\ errorMessage' = c.errorMessage
  /\ currentView' = c.currentView
  /\ selectedDatasetId' = c.selectedDatasetId
  /\ inputModel' = c.inputModel
  /\ routePlanId' = c.routePlanId
  /\ baselineSchedule' = c.baselineSchedule
  /\ optimizedSchedule' = c.optimizedSchedule
  /\ routePlan' = c.routePlan
  /\ kpis' = c.kpis
  /\ activeStatusFilters' = c.activeStatusFilters
  /\ loops' = PollingEffect(c, ls)
  /\ polls' = IF EffectStarts(c) THEN Requested(ps, c.routePlanId) ELSE ps

\* the variables of the mapping layer and of the parser the page leaves alone
idleVars == <<pc, modelInput, now, simulatedSchedule, parseVars>>

Failed(c, message) == [c EXCEPT !.errorMessage = message, !.status = "error"]

\* loadDataset up to its fetch
LoadDatasetCells(c, id) ==
  [c EXCEPT !.selectedDatasetId = id, !.status = "loading-demo",
            !.errorMessage = ""]

\* loadDataset from the response on
LoadedCells(c, model, baseline) ==
  IF baseline.threw
  THEN Failed([c EXCEPT !.inputModel = model], "Failed to load dataset")
  ELSE [c EXCEPT !.inputModel = model,
                 !.baselineSchedule = baseline,
                 !.optimizedSchedule = Null,
                 !.routePlan = NoPlan,
                 !.currentView = "baseline",
                 !.kpis = computeKpis(model, NoPlan, baseline, Null),
                 !.status = "idle"]

\* startOptimization up to its fetch; posted tells whether it sends one
StartOptimizationPosts(c) ==
  c.inputModel # Null /\ c.selectedDatasetId # "local-demo"

StartOptimizationCells(c) ==
  IF c.inputModel = Null
  THEN [c EXCEPT !.errorMessage = "No dataset loaded. Please load a dataset first."]
  ELSE IF c.selectedDatasetId = "local-demo"
  THEN [c EXCEPT !.errorMessage = "Local demo data cannot be optimized. Please select a Timefold demo dataset."]
  ELSE [c EXCEPT !.status = "optimizing", !.errorMessage = ""]

\* the KPIs simulateLocally sets: the visit counts of the two schedules and
\* fixed figures
VisitCount(schedule) ==
  Len(SelectSeq(schedule.events, LAMBDA e : e.eventType = "visit"))

SimulatedKpis(baseline, optimized) ==
  [totalVisitsBaseline |-> VisitCount(baseline),
   totalVisitsOptimized |-> VisitCount(optimized),
   assignedVisitsBaseline |-> VisitCount(baseline),
   assignedVisitsOptimized |-> VisitCount(optimized),
   unassignedVisitsBaseline |-> 0,
   unassignedVisitsOptimized |-> 0,
   totalTravelTimeBaseline |-> Num(180),
   totalTravelTimeOptimized |-> Num(108),
   totalServiceTimeBaseline |-> Num(480),
   totalServiceTimeOptimized |-> Num(480),
   totalWaitTimeBaseline |-> Num(60),
   totalWaitTimeOptimized |-> Num(30),
   totalWorkTimeBaseline |-> Num(720),
   totalWorkTimeOptimized |-> Num(618),
   totalCostBaseline |-> Num(5400),
   totalCostOptimized |-> Num(4635),
   utilizationByResourceBaseline |-> << >>,
   utilizationByResourceOptimized |-> << >>,
   avgUtilizationBaseline |-> Num(65),
   avgUtilizationOptimized |-> Num(82)]

\* the callback of the timer of simulateLocally, on the values its closure
\* holds
SimulatedCells(c, model, baseline, optimized) ==
  IF optimized.threw THEN Failed(c, "Failed to simulate optimization")
  ELSE [c EXCEPT !.optimizedSchedule = optimized,
                 !.kpis = SimulatedKpis(baseline, optimized),
                 !.currentView = "optimized",
                 !.status = "complete"]

\* the if (data.isComplete) block of pollForResults, on the values the
\* closure of the loop holds
CompletedCells(c, l, plan, optimized) ==
  IF l.inputModel # Null /\ optimized.threw
  THEN Failed([c EXCEPT !.routePlan = plan], "Error during optimization")
  ELSE [c EXCEPT !.routePlan = plan,
                 !.optimizedSchedule =
                    IF l.inputModel # Null THEN optimized ELSE @,
                 !.kpis =
                    IF l.inputModel # Null /\ l.baselineSchedule # Null
                    THEN computeKpis(l.inputModel, plan, l.baselineSchedule,
                                     optimized)
                    ELSE @,
                 !.activeStatusFilters = {"optimerad"},
                 !.currentView = "optimized",
                 !.status = "complete"]

\* does pollForResults schedule the next poll after this response
PollsAgain(l) ==
  /\ l.response.success
  /\ l.response.routePlan.solverStatus # "DATASET_INVALID"
  /\ ~l.response.isComplete
  /\ l.response.routePlan.solverStatus # "EXCEPTION"
  /\ l.pollCount + 1 < maxPolls

\* pollForResults from the response on: the cells it sets
PollResponseCells(c, l) ==
  IF ~l.response.success THEN Failed(c, l.response.error)
  ELSE IF l.response.routePlan.solverStatus = "DATASET_INVALID"
  THEN Failed(c, "DATASET_INVALID: Map coverage issue. Use 'Simulate Locally'.")
  ELSE IF l.response.isComplete
  THEN CompletedCells(c, l, l.response.routePlan,
         IF l.inputModel # Null
         THEN mapRoutePlanToOptimizedSchedule(l.response.routePlan, l.inputModel)
         ELSE Null)
  ELSE IF l.response.routePlan.solverStatus = "EXCEPTION"
  THEN Failed(c, "Solver encountered an error during optimization")
  ELSE IF l.pollCount + 1 >= maxPolls THEN Failed(c, TimeoutMessage)
  ELSE c

\* the loops after loop i handled its response: it waits for its timer or
\* is over
PollResponseLoops(ls, i) ==
  IF PollsAgain(ls[i])
  THEN [ls EXCEPT ![i].pollCount = @ + 1, ![i].phase = "waiting"]
  ELSE SelectSeq([j \in 1..Len(ls) |-> [ls[j] EXCEPT !.phase = IF j = i THEN "over" ELSE @]],
                 LAMBDA l : l.phase # "over")

\* the event handleNewVisit builds from the form: its id is
\* visit-${Date.now()}
NewVisitEvent(view, time) ==
  [id |-> "visit-" \o ToString(time),
   resourceId |-> "t1",
   startDate |-> At(HM(10, 0)),
   endDate |-> At(HM(10, 30)),
   name |-> "Nytt besok",
   eventType |-> "visit",
   status |-> IF view = "optimized" THEN "optimized" ELSE "baseline",
   visitId |-> "visit-" \o ToString(time),
   address |-> "Storgatan 1",
   isAdjusted |-> TRUE]

AppendEvent(schedule, event) ==
  [schedule EXCEPT !.events = Append(@, event)]

handleNewVisitCells(c, time) ==
  IF c.baselineSchedule = Null THEN c
  ELSE IF c.currentView = "optimized" /\ c.optimizedSchedule # Null
  THEN [c EXCEPT !.optimizedSchedule =
                    AppendEvent(@, NewVisitEvent(c.currentView, time))]
  ELSE [c EXCEPT !.baselineSchedule =
                    AppendEvent(@, NewVisitEvent(c.currentView, time))]

\* message.includes("DATASET_INVALID") || message.includes("map coverage")
\* of the ErrorMessage component, on the messages the page sets
isMapCoverageError(message) ==
  message \in
    {"DATASET_INVALID: Map coverage issue. Use 'Simulate Locally'.",
     "Dataset is invalid. The locations may be outside the supported map coverage."}

\* the predicate of sourceSchedule.events.filter(...) in filteredSchedule
ShownByStatus(event, filters) ==
  \/ event.eventType \in {"travel", "break"}
  \/ ("isAdjusted" \in DOMAIN event /\ event.isAdjusted) /\ "utford" \in filters
  \/ event.status = "optimized" /\ "optimerad" \in filters
  \/ event.status = "baseline" /\ "planerad" \in filters
  \/ event.status = "baseline" /\ "oplanerad" \in filters
  \/ filters = {}

\* filteredSchedule of the page; the entity filter stays on "personal",
\* which keeps every resource
filteredSchedule(view, baseline, optimized, filters) ==
  LET sourceSchedule == IF view = "baseline" THEN baseline ELSE optimized
  IN IF sourceSchedule = Null THEN Null
     ELSE [sourceSchedule EXCEPT
             !.events = SelectSeq(@, LAMBDA e : ShownByStatus(e, filters))]

dismissErrorCells(c) ==
  [c EXCEPT !.errorMessage = "",
            !.status = IF c.status = "error" THEN "idle" ELSE @]

\* the page as constructed
PageInit ==
  /\ pc = "page"
  /\ status = "idle"
  /\ errorMessage = ""
  /\ currentView = "baseline"
  /\ selectedDatasetId = ""
  /\ inputModel = Null
  /\ routePlanId = ""
  /\ activeStatusFilters = {"oplanerad", "planerad"}
  /\ baselineSchedule = Null
  /\ optimizedSchedule = Null
  /\ routePlan = NoPlan
  /\ kpis = Null
  /\ loops = <<>>
  /\ timers = <<>>
  /\ loads = <<>>
  /\ posts = 0
  /\ solver = <<>>
  /\ polls = <<>>
  /\ wallClock = 0
  /\ modelInput = Model(<<>>, <<>>)
  /\ now = ClockAt(HM(6, 0), HM(6, 0))
  /\ simulatedSchedule = NoSchedule
  /\ durationString = NoDuration
  /\ parsedMinutes = 0

UserActs == wallClock < MaxUserActions /\ wallClock' = wallClock + 1

Without(seq, i) == SubSeq(seq, 1, i - 1) \o SubSeq(seq, i + 1, Len(seq))

\* the dataset selector, the load button or the first effect of the page
\* calls loadDataset(id)
LoadDataset ==
  \E id \in DatasetIds :
    /\ UserActs
    /\ Commit(LoadDatasetCells(Cells, id), loops, polls)
    /\ loads' = Append(loads, id)
    /\ UNCHANGED <<timers, posts, solver, idleVars>>

\* the response to a fetch of loadDataset arrives
LoadResponse ==
  \E i \in 1..Len(loads) : \E outcome \in LoadOutcomes(loads[i]) :
    /\ IF outcome # "failed"
       THEN /\ Commit(LoadedCells(Cells, ServedModel(loads[i], outcome),
                        mapInputToBaselineSchedule(
                          ServedModel(loads[i], outcome))),
                      OlderThanLoad(loops), polls)
            /\ timers' = OlderThanLoad(timers)
       ELSE /\ Commit(Failed(Cells, "Failed to load dataset"), loops, polls)
            /\ timers' = timers
    /\ loads' = Without(loads, i)
    /\ UNCHANGED <<posts, solver, wallClock, idleVars>>

\* a click on the optimize button, which is disabled without a dataset and
\* while the status is "optimizing" or "polling"
StartOptimization ==
  /\ inputModel # Null
  /\ status \notin {"optimizing", "polling"}
  /\ Len(solver) + posts < MaxRuns
  /\ UserActs
  /\ Commit(StartOptimizationCells(Cells), loops, polls)
  /\ posts' = IF StartOptimizationPosts(Cells) THEN posts + 1 ELSE posts
  /\ UNCHANGED <<timers, loads, solver, idleVars>>

\* the response to the POST of startOptimization arrives: the solver has
\* created a route plan, or the request failed
PostResponse ==
  \E ok \in BOOLEAN :
    /\ posts > 0
    /\ posts' = posts - 1
    /\ IF ok
       THEN /\ solver' = Append(solver, "SOLVING_SCHEDULED")
            /\ Commit([Cells EXCEPT !.routePlanId = PlanId(Len(solver) + 1),
                                    !.status = "polling"],
                      loops, Append(polls, [sent |-> 0, ended |-> FALSE]))
       ELSE /\ solver' = solver
            /\ Commit(Failed(Cells, "Failed to start optimization"),
                      loops, polls)
    /\ UNCHANGED <<timers, loads, wallClock, idleVars>>

\* the solver ends the run of a route plan
SolverFinishes ==
  \E k \in 1..Len(solver), s \in TerminalStatuses :
    /\ ~isSolverComplete(solver[k])
    /\ solver' = [solver EXCEPT ![k] = s]
    /\ UNCHANGED <<cellVars, mapVars, asyncVars, polls, wallClock, pc, parseVars>>

\* the server answers the poll request of a loop
ServerAnswer ==
  \E i \in 1..Len(loops), validationErrors \in ValidationErrorLists :
    /\ loops[i].phase = "fetching"
    /\ loops' = [loops EXCEPT
                   ![i].phase = "answered",
                   ![i].response =
                      PollAnswer(loops[i].routePlanId,
                                 solver[PlanIndex(loops[i].routePlanId)],
                                 validationErrors)]
    /\ UNCHANGED <<cellVars, mapVars, timers, loads, posts, serverVars,
                   wallClock, pc, parseVars>>

\* pollForResults of loop i resumes with the response
PollResponseOf(i) ==
  /\ loops[i].phase = "answered"
  /\ Commit(PollResponseCells(Cells, loops[i]),
            PollResponseLoops(loops, i), Answered(polls, loops[i]))
  /\ UNCHANGED <<timers, loads, posts, solver, wallClock, idleVars>>

PollResponse == \E i \in 1..Len(loops) : PollResponseOf(i)

\* setTimeout(pollForResults, POLL_INTERVAL_MS) of loop i fires: the next
\* request
PollTimerOf(i) ==
  /\ loops[i].phase = "waiting"
  /\ loops' = [loops EXCEPT ![i].phase = "fetching"]
  /\ polls' = Requested(polls, loops[i].routePlanId)
  /\ UNCHANGED <<cellVars, mapVars, timers, loads, posts, solver,
                 wallClock, pc, parseVars>>

PollTimer == \E i \in 1..Len(loops) : PollTimerOf(i)

\* a click on the simulate button, which is never disabled
SimulateLocally ==
  /\ UserActs
  /\ IF inputModel = Null \/ baselineSchedule = Null
     THEN /\ Commit([Cells EXCEPT !.errorMessage = "No dataset loaded. Please load a dataset first."], loops, polls)
          /\ timers' = timers
     ELSE /\ Commit([Cells EXCEPT !.status = "optimizing", !.errorMessage = ""], loops, polls)
          /\ timers' = Append(timers, [inputModel |-> inputModel,
                                       baselineSchedule |-> baselineSchedule,
                                       beforeLoad |-> FALSE])
  /\ UNCHANGED <<loads, posts, solver, idleVars>>

\* the timer of simulateLocally fires after 1500 ms
SimulationTimerOf(i) ==
  /\ Commit(SimulatedCells(Cells, timers[i].inputModel,
              timers[i].baselineSchedule,
              simulateOptimizedSchedule(timers[i].inputModel,
                                        timers[i].baselineSchedule)),
            loops, polls)
  /\ timers' = Without(timers, i)
  /\ UNCHANGED <<loads, posts, solver, wallClock, idleVars>>

SimulationTimer == \E i \in 1..Len(timers) : SimulationTimerOf(i)

\* the new-visit dialog is submitted
HandleNewVisit ==
  /\ UserActs
  /\ Commit(handleNewVisitCells(Cells, wallClock), loops, polls)
  /\ UNCHANGED <<timers, loads, posts, solver, idleVars>>

\* the error banner is dismissed
DismissError ==
  /\ errorMessage # ""
  /\ Commit(dismissErrorCells(Cells), loops, polls)
  /\ UNCHANGED <<timers, loads, posts, solver, wallClock, idleVars>>

PageNext ==
  \/ LoadDataset \/ LoadResponse
  \/ StartOptimization \/ PostResponse
  \/ SolverFinishes \/ ServerAnswer \/ PollResponse \/ PollTimer
  \/ SimulateLocally \/ SimulationTimer
  \/ HandleNewVisit \/ DismissError

PageSpec == PageInit /\ [][PageNext]_vars

----------------------------------------------------------------------------
(* Manual edits: the page with its schedules edited by drag and resize in the
   scheduler, and the view switched *)

\* the edits explored after the other actions of a session
MaxEdits == 1

\* { ...e, ...updatedEvent }
Spread(e, updatedEvent) ==
  [k \in DOMAIN e \cup DOMAIN updatedEvent |->
     IF k \in DOMAIN updatedEvent THEN updatedEvent[k] ELSE e[k]]

\* an edit that leaves the event on its resource
AdjustedEventMutant(e, updatedEvent) ==
  [Spread(e, updatedEvent) EXCEPT !.resourceId = e.resourceId]

\* { ...e, ...updatedEvent, isAdjusted: true }
AdjustedEvent(e, updatedEvent) ==
  Spread(e, [updatedEvent EXCEPT !.isAdjusted = TRUE])

\* extractEventFromRecord: the event the scheduler hands back for a record
extractEventFromRecord(record) ==
  [id |-> record.id,
   resourceId |-> record.resourceId,
   startDate |-> record.startDate,
   endDate |-> record.endDate,
   name |-> record.name,
   eventType |-> IF record.eventType # "" THEN record.eventType ELSE "visit",
   status |-> "optimized",
   visitId |-> record.visitId,
   address |-> IF "address" \in DOMAIN record THEN record.address ELSE "",
   isAdjusted |-> TRUE]

\* handleEventUpdate: the schedule the updater function returns
UpdatedSchedule(prev, updatedEvent) ==
  IF prev = Null THEN prev
  ELSE [prev EXCEPT !.events =
          [i \in 1..Len(prev.events) |->
             IF prev.events[i].id = updatedEvent.id
             THEN AdjustedEvent(prev.events[i], updatedEvent)
             ELSE prev.events[i]]]

\* handleEventUpdate; the KPIs are computed from the schedule of the
\* closure, the one before the edit
handleEventUpdateCells(c, updatedEvent) ==
  IF c.optimizedSchedule = Null THEN c
  ELSE [c EXCEPT !.optimizedSchedule = UpdatedSchedule(@, updatedEvent),
                 !.kpis =
                    IF c.inputModel # Null /\ c.baselineSchedule # Null
                    THEN computeKpis(c.inputModel, c.routePlan,
                                     c.baselineSchedule, c.optimizedSchedule)
                    ELSE @]

\* displayedSchedule of the page: the filtered schedule of the current view
DisplayedSchedule ==
  filteredSchedule(currentView, baselineSchedule, optimizedSchedule,
                   activeStatusFilters)

\* the records a drag or a resize of a displayed event leaves in the
\* scheduler: the event an hour later on any resource, or half an hour longer
EditedRecords ==
  IF DisplayedSchedule = Null THEN {}
  ELSE UNION {
         {[e EXCEPT !.resourceId = r.id,
                    !.startDate = At(e.startDate.t + 60),
                    !.endDate = At(e.endDate.t + 60)] :
             r \in {DisplayedSchedule.resources[j] :
                      j \in 1..Len(DisplayedSchedule.resources)}}
         \cup {[e EXCEPT !.endDate = At(e.endDate.t + 30)]} :
           e \in {DisplayedSchedule.events[i] :
                    i \in 1..Len(DisplayedSchedule.events)}}

\* the scheduler reports a drop or a resize that left the record
HandleEventUpdateOf(record) ==
  /\ wallClock < MaxUserActions + MaxEdits
  /\ wallClock' = wallClock + 1
  /\ Commit(handleEventUpdateCells(Cells, extractEventFromRecord(record)),
            loops, polls)
  /\ UNCHANGED <<timers, loads, posts, solver, idleVars>>

HandleEventUpdate == \E record \in EditedRecords : HandleEventUpdateOf(record)

\* the view switch: setCurrentView; the optimized view is disabled without
\* an optimized schedule
SetCurrentView ==
  \E view \in {"baseline", "optimized"} :
    /\ view # currentView
    /\ view = "optimized" => optimizedSchedule # Null
    /\ Commit([Cells EXCEPT !.currentView = view], loops, polls)
    /\ UNCHANGED <<timers, loads, posts, solver, wallClock, idleVars>>

\* the actions that build the schedules, and the two of the scheduler view
EditNext ==
  \/ LoadDataset \/ LoadResponse
  \/ StartOptimization \/ PostResponse
  \/ SolverFinishes \/ ServerAnswer \/ PollResponse \/ PollTimer
  \/ SimulateLocally \/ SimulationTimer
  \/ HandleEventUpdate \/ SetCurrentView

EditSpec == PageInit /\ [][EditNext]_vars

----------------------------------------------------------------------------
(* Properties of the mapping layer *)

Indices(seq) == 1..Len(seq)

VisitEventsOf(schedule) ==
  SelectSeq(schedule.events, LAMBDA e : e.eventType = "visit")

EventsOn(schedule, resourceId) ==
  SelectSeq(schedule.events, LAMBDA e : e.resourceId = resourceId)

\* an event whose dates parse and whose start is strictly before its end
StartsBeforeEnd(e) ==
  e.startDate.k = "iso" /\ e.endDate.k = "iso" /\ e.startDate.t < e.endDate.t

BaselineReturned == pc = "baseline" /\ ~baselineSchedule.threw
OptimizedReturned == pc = "optimized" /\ ~optimizedSchedule.threw

\* C1: every event of the returned baseline schedule and of the returned
\* optimized schedule, break events included, starts strictly before it
\* ends.
C1_EveryEventStartsBeforeEnd ==
  /\ BaselineReturned =>
       \A i \in Indices(baselineSchedule.events) :
          StartsBeforeEnd(baselineSchedule.events[i])
  /\ OptimizedReturned =>
       \A i \in Indices(optimizedSchedule.events) :
          StartsBeforeEnd(optimizedSchedule.events[i])

\* the vehicle (index from 1) the baseline assigns the visit at index i
\* (from 1) to, as the claims state it
ClaimedVehicle(i) == ((i - 1) % Len(modelInput.vehicles)) + 1

\* the input indices of the visits assigned to vehicle j
AssignedTo(j) == {i \in Indices(modelInput.visits) : ClaimedVehicle(i) = j}

\* the first shift of vehicle j has a start that parses as a date
Startable(j) ==
  /\ modelInput.vehicles[j].shifts # <<>>
  /\ getShiftStartTime(modelInput.vehicles[j].shifts[1]).k = "iso"

VisitEventCount(schedule, resourceId) ==
  Cardinality({i \in Indices(schedule.events) :
                 /\ schedule.events[i].eventType = "visit"
                 /\ schedule.events[i].resourceId = resourceId})

FloorOrCeil(count, n, v) == count = n \div v \/ count = CeilDiv(n, v)

PlacedVisits ==
  SelectSeq([i \in Indices(modelInput.visits) |->
               [visit |-> modelInput.visits[i], vehicle |-> ClaimedVehicle(i)]],
            LAMBDA x : Startable(x.vehicle))

ClaimedDuration(duration) ==
  IF parseDurationToMinutes(duration) = 0 THEN 30
  ELSE parseDurationToMinutes(duration)

\* C3: on each vehicle the first baseline visit starts at the vehicle's
\* first shift start and every later one starts at the start of the
\* previous visit of that vehicle plus that visit's duration plus 15
\* minutes.
C3_SequentialPlacement ==
  (BaselineReturned /\ Len(modelInput.vehicles) > 0) =>
     \A j \in Indices(modelInput.vehicles) :
        LET own == SelectSeq(VisitEventsOf(baselineSchedule),
                     LAMBDA e : e.resourceId = modelInput.vehicles[j].id)
            mine == SelectSeq(PlacedVisits, LAMBDA x : x.vehicle = j)
        IN \A n \in Indices(own) :
              own[n].startDate.t =
                IF n = 1
                THEN getShiftStartTime(modelInput.vehicles[j].shifts[1]).t
                ELSE own[n - 1].startDate.t
                     + ClaimedDuration(mine[n - 1].visit.serviceDuration)
                     + 15

KpisComputed == pc = "kpis"

\* C4: without a route plan every optimized-side field of the KPI summary
\* equals its baseline-side counterpart.
C4_NoPlanMirrorsBaseline ==
  (KpisComputed /\ ~routePlan.present) =>
     /\ kpis.totalVisitsOptimized = kpis.totalVisitsBaseline
     /\ kpis.assignedVisitsOptimized = kpis.assignedVisitsBaseline
     /\ kpis.unassignedVisitsOptimized = kpis.unassignedVisitsBaseline
     /\ kpis.totalTravelTimeOptimized = kpis.totalTravelTimeBaseline
     /\ kpis.totalServiceTimeOptimized = kpis.totalServiceTimeBaseline
     /\ kpis.totalWaitTimeOptimized = kpis.totalWaitTimeBaseline
     /\ kpis.totalWorkTimeOptimized = kpis.totalWorkTimeBaseline
     /\ kpis.totalCostOptimized = kpis.totalCostBaseline
     /\ DOMAIN kpis.utilizationByResourceOptimized
          = DOMAIN kpis.utilizationByResourceBaseline
     /\ \A id \in DOMAIN kpis.utilizationByResourceBaseline :
           kpis.utilizationByResourceOptimized[id]
             = kpis.utilizationByResourceBaseline[id]
     /\ kpis.avgUtilizationOptimized = kpis.avgUtilizationBaseline
     /\ ~kpis.totalWorkTimeOptimized.nan
     /\ ~kpis.avgUtilizationOptimized.nan

\* C4 witness: KPIs computed without a plan for two vehicles with a
\* utilization and three visits
C4_Witness ==
  /\ KpisComputed
  /\ ~routePlan.present
  /\ kpis.totalVisitsBaseline = 3
  /\ Cardinality(DOMAIN kpis.utilizationByResourceOptimized) = 2
  /\ kpis.totalWaitTimeOptimized.v > 0
  /\ kpis.avgUtilizationOptimized.v > 0

\* a utilization value that is a number between 0 and 100
Percentage(x) == ~x.nan /\ 0 <= x.v /\ x.v <= 100

\* C5: every value of the two utilization maps is a number between 0 and
\* 100, whatever the route plan.
C5_UtilizationInRange ==
  KpisComputed =>
     /\ \A id \in DOMAIN kpis.utilizationByResourceBaseline :
           Percentage(kpis.utilizationByResourceBaseline[id])
     /\ \A id \in DOMAIN kpis.utilizationByResourceOptimized :
           Percentage(kpis.utilizationByResourceOptimized[id])

\* the planned visits of the route plan, route after route
RECURSIVE PlannedOf(_, _)
PlannedOf(routes, r) ==
  IF r > Len(routes) THEN <<>>
  ELSE routes[r].visits \o PlannedOf(routes, r + 1)

AllPlanned == PlannedOf(routePlan.routes, 1)

\* C6: on each side the reported total work time is the sum of the
\* reported service, travel and wait times.
C6_WorkTimeIsSum ==
  KpisComputed =>
     /\ kpis.totalWorkTimeBaseline =
          NAdd(NAdd(kpis.totalServiceTimeBaseline,
                    kpis.totalTravelTimeBaseline),
               kpis.totalWaitTimeBaseline)
     /\ kpis.totalWorkTimeOptimized =
          NAdd(NAdd(kpis.totalServiceTimeOptimized,
                    kpis.totalTravelTimeOptimized),
               kpis.totalWaitTimeOptimized)

\* the id a planned visit is known by: its id, else its visitId, else
\* "unknown-" and its position in the route (from 0)
ClaimedVisitId(pv, position) ==
  IF pv.id # "" THEN pv.id
  ELSE IF pv.visitId # "" THEN pv.visitId
  ELSE "unknown-" \o ToString(position)

\* the service duration of the visit definition the model input holds
\* under an id, 30 minutes when the definition or its duration is missing
ClaimedServiceDuration(id) ==
  IF \E j \in Indices(modelInput.visits) : modelInput.visits[j].id = id
  THEN ClaimedDuration(
         (CHOOSE v \in {modelInput.visits[j] : j \in Indices(modelInput.visits)} :
             v.id = id).serviceDuration)
  ELSE 30

\* the start-side timestamp of a planned visit: arrivalTime, else
\* startServiceTime
ClaimedStartSide(pv) ==
  IF pv.arrivalTime.k # "absent" THEN pv.arrivalTime ELSE pv.startServiceTime

\* the optimized schedule holds an event for the planned visit at a
\* position (from 0) of a route, with the given dates
EmittedAs(route, position, startDate, endDate) ==
  \E i \in Indices(optimizedSchedule.events) :
     /\ optimizedSchedule.events[i].id =
          "opt-" \o ClaimedVisitId(route.visits[position + 1], position)
                 \o "-" \o ToString(position)
     /\ optimizedSchedule.events[i].resourceId = route.vehicleId
     /\ optimizedSchedule.events[i].eventType = "visit"
     /\ optimizedSchedule.events[i].startDate = startDate
     /\ optimizedSchedule.events[i].endDate = endDate

OnlyStartSide(pv) ==
  ClaimedStartSide(pv).k = "iso" /\ pv.departureTime.k = "absent"

OnlyDeparture(pv) ==
  ClaimedStartSide(pv).k = "absent" /\ pv.departureTime.k = "iso"

\* C7: a planned visit with a start-side timestamp and no departureTime
\* yields an event from that start to that start plus the service duration
\* of the visit definition (30 minutes when missing); one with a
\* departureTime only yields an event from the departure minus that
\* duration to the departure.
C7_OneSidedDerivation ==
  OptimizedReturned =>
    \A r \in Indices(routePlan.routes) :
      \A k \in Indices(routePlan.routes[r].visits) :
        /\ OnlyStartSide(routePlan.routes[r].visits[k]) =>
             EmittedAs(routePlan.routes[r], k - 1,
               ClaimedStartSide(routePlan.routes[r].visits[k]),
               At(ClaimedStartSide(routePlan.routes[r].visits[k]).t
                  + ClaimedServiceDuration(
                      ClaimedVisitId(routePlan.routes[r].visits[k], k - 1))))
        /\ OnlyDeparture(routePlan.routes[r].visits[k]) =>
             EmittedAs(routePlan.routes[r], k - 1,
               At(routePlan.routes[r].visits[k].departureTime.t
                  - ClaimedServiceDuration(
                      ClaimedVisitId(routePlan.routes[r].visits[k], k - 1))),
               routePlan.routes[r].visits[k].departureTime)

\* C7 witness: a returned optimized schedule for a plan with a visit with
\* a start only and a visit with a departure only, both of a defined
\* duration other than 30 minutes
C7_Witness ==
  /\ OptimizedReturned
  /\ \E i \in Indices(AllPlanned) :
        /\ OnlyStartSide(AllPlanned[i])
        /\ ClaimedServiceDuration(ClaimedVisitId(AllPlanned[i], 0)) # 30
  /\ \E i \in Indices(AllPlanned) :
        /\ OnlyDeparture(AllPlanned[i])
        /\ ClaimedServiceDuration(ClaimedVisitId(AllPlanned[i], 0)) # 30
  /\ Len(optimizedSchedule.events) >= 2

\* both sides of the planned visit are given as dates and its start is not
\* strictly before its end
GivenInverted(pv) ==
  /\ ClaimedStartSide(pv).k = "iso"
  /\ pv.departureTime.k = "iso"
  /\ ClaimedStartSide(pv).t >= pv.departureTime.t

\* both sides of the planned visit are given and one is not a date
GivenUnparseable(pv) ==
  /\ ClaimedStartSide(pv).k # "absent"
  /\ pv.departureTime.k # "absent"
  /\ (ClaimedStartSide(pv).k = "bad" \/ pv.departureTime.k = "bad")

\* C8: a planned visit whose start and end both parse, the start not
\* strictly before the end, is not dropped: the schedule holds an event for
\* it from its start to its start plus the visit's service duration, and
\* the routes yield one event for every planned visit but those with a
\* date that does not parse.
C8_InvertedIsHealed ==
  OptimizedReturned =>
    /\ \A r \in Indices(routePlan.routes) :
         \A k \in Indices(routePlan.routes[r].visits) :
           GivenInverted(routePlan.routes[r].visits[k]) =>
             EmittedAs(routePlan.routes[r], k - 1,
               ClaimedStartSide(routePlan.routes[r].visits[k]),
               At(ClaimedStartSide(routePlan.routes[r].visits[k]).t
                  + ClaimedServiceDuration(
                      ClaimedVisitId(routePlan.routes[r].visits[k], k - 1))))
    /\ Len(optimizedSchedule.events) =
         Len(SelectSeq(AllPlanned, LAMBDA pv : ~GivenUnparseable(pv)))
         + Len(routePlan.unassignedVisits)

\* C8 witness: a returned optimized schedule for a plan with a visit that
\* ends before it starts and a visit that ends when it starts
C8_Witness ==
  /\ OptimizedReturned
  /\ \E i \in Indices(AllPlanned) :
        /\ GivenInverted(AllPlanned[i])
        /\ ClaimedStartSide(AllPlanned[i]).t > AllPlanned[i].departureTime.t
  /\ \E i \in Indices(AllPlanned) :
        /\ GivenInverted(AllPlanned[i])
        /\ ClaimedStartSide(AllPlanned[i]).t = AllPlanned[i].departureTime.t
  /\ Len(optimizedSchedule.events) >= 2

\* the fallback base time: the start of the first shift of the first
\* vehicle, the reading of the clock when it has none
ClaimedBaseTime ==
  IF Truthy(getShiftStartTime(modelInput.vehicles[1].shifts[1]))
  THEN getShiftStartTime(modelInput.vehicles[1].shifts[1]).t
  ELSE now.unassigned

\* the name of a listed unassigned visit: its own, else that of the model
\* input's visit of the same id
ClaimedUnassignedName(entry, name) ==
  IF entry.name # "" THEN name = entry.name
  ELSE \A j \in Indices(modelInput.visits) :
          modelInput.visits[j].id = entry.id => name = modelInput.visits[j].name

\* C9: the returned optimized schedule has a resource "unassigned" exactly
\* when the plan lists unassigned visits; the i-th listed visit (from 0) is
\* then the i-th event of that resource, a visit starting 45 * i minutes
\* after the fallback base time and named after the visit.
C9_UnassignedRow ==
  OptimizedReturned =>
    /\ (\E i \in Indices(optimizedSchedule.resources) :
           optimizedSchedule.resources[i].id = "unassigned")
         <=> Len(routePlan.unassignedVisits) > 0
    /\ Len(EventsOn(optimizedSchedule, "unassigned"))
         = Len(routePlan.unassignedVisits)
    /\ \A i \in Indices(routePlan.unassignedVisits) :
         /\ EventsOn(optimizedSchedule, "unassigned")[i].eventType = "visit"
         /\ EventsOn(optimizedSchedule, "unassigned")[i].visitId
              = routePlan.unassignedVisits[i].id
         /\ EventsOn(optimizedSchedule, "unassigned")[i].startDate
              = At(ClaimedBaseTime + 45 * (i - 1))
         /\ ClaimedUnassignedName(routePlan.unassignedVisits[i],
              EventsOn(optimizedSchedule, "unassigned")[i].name)

\* C9 witness: a returned optimized schedule for a plan that lists three
\* unassigned visits, one named by the list and one by the model input
C9_Witness ==
  /\ OptimizedReturned
  /\ Len(routePlan.unassignedVisits) = 3
  /\ Len(EventsOn(optimizedSchedule, "unassigned")) = 3
  /\ \E i \in Indices(routePlan.unassignedVisits) :
        routePlan.unassignedVisits[i].name # ""
  /\ \E i \in Indices(routePlan.unassignedVisits) :
        /\ routePlan.unassignedVisits[i].name = ""
        /\ \E j \in Indices(modelInput.visits) :
              modelInput.visits[j].id = routePlan.unassignedVisits[i].id

SimulatorReturned == pc = "simulated" /\ ~simulatedSchedule.threw

\* the baseline event a simulated event was made of
OriginalOf(e) ==
  CHOOSE b \in {baselineSchedule.events[j] :
                  j \in Indices(baselineSchedule.events)} :
     b.id \o "-optimized" = e.id

SimulatedVisitsOn(resourceId) ==
  SelectSeq(simulatedSchedule.events,
            LAMBDA e : e.resourceId = resourceId /\ e.eventType = "visit")

\* the i-th of the simulated events is the first of its calendar day
FirstOfDay(events, i) ==
  i = 1 \/ DayOf(OriginalOf(events[i - 1])) # DayOf(OriginalOf(events[i]))

\* the events are re-timed as the simulator is said to: the first of a day
\* at 08:00, a later one 9 minutes after the end of the previous one, each
\* as long as it was
Retimed(events) ==
  \A i \in Indices(events) :
     /\ events[i].endDate.t - events[i].startDate.t
          = OriginalOf(events[i]).endDate.t - OriginalOf(events[i]).startDate.t
     /\ FirstOfDay(events, i) =>
          events[i].startDate.t
            = DayOf(OriginalOf(events[i])) * MinutesPerDay + 8 * 60
     /\ ~FirstOfDay(events, i) =>
          events[i].startDate.t = events[i - 1].endDate.t + 9

\* C10: on every resource the simulator starts the first visit event of a
\* day at 08:00, every later visit event 9 minutes after the new end of the
\* previous one, and keeps the duration of every visit event.
C10_VisitsRetimed ==
  SimulatorReturned =>
    \A r \in Indices(simulatedSchedule.resources) :
       Retimed(SimulatedVisitsOn(simulatedSchedule.resources[r].id))

\* the vehicle has a first shift whose start (startTime, else minStartTime)
\* parses as a date
HasResolvableStart(vehicle) ==
  /\ vehicle.shifts # <<>>
  /\ getShiftStartTime(vehicle.shifts[1]).k = "iso"

\* every vehicle is a resource of the schedule, and one without a
\* resolvable shift start has no visit event
IdleWithoutStart(schedule) ==
  \A i \in Indices(modelInput.vehicles) :
     /\ \E r \in Indices(schedule.resources) :
           schedule.resources[r].id = modelInput.vehicles[i].id
     /\ ~HasResolvableStart(modelInput.vehicles[i]) =>
           \A e \in Indices(schedule.events) :
              schedule.events[e].resourceId = modelInput.vehicles[i].id
                => schedule.events[e].eventType # "visit"

\* C11: the baseline mapper and the optimized mapper return, and never
\* raise, for every model input, a vehicle without shifts, no vehicle for
\* some visits and shifts without bounds included; in the baseline schedule
\* a vehicle without a resolvable shift start is a resource without visit
\* events.  (computeKpis is a total function of the model: it returns for
\* every input.)
C11_NeverThrows ==
  /\ pc = "baseline" =>
       ~baselineSchedule.threw /\ IdleWithoutStart(baselineSchedule)
  /\ pc = "optimized" => ~optimizedSchedule.threw

----------------------------------------------------------------------------
(* Shift blocks *)

Parses(s) == s.k = "iso"

\* the pair of bounds the claim resolves for a shift: (startTime, endTime)
\* when both parse, else (minStartTime, maxEndTime) when both parse
ClaimedBounds(shift) ==
  IF Parses(shift.startTime) /\ Parses(shift.endTime)
  THEN <<shift.startTime, shift.endTime>>
  ELSE IF Parses(shift.minStartTime) /\ Parses(shift.maxEndTime)
       THEN <<shift.minStartTime, shift.maxEndTime>>
       ELSE <<>>

\* the break events the schedule holds for shift s (from 0) of a vehicle
BreaksOf(schedule, vehicle, s) ==
  {e \in Indices(schedule.events) :
     /\ schedule.events[e].eventType = "break"
     /\ schedule.events[e].id
          = "shift-" \o vehicle.id \o "-" \o ToString(s)}

\* C18: the baseline schedule holds a break event for a shift exactly when
\* one schema gives both bounds as parseable instants, (startTime, endTime)
\* preferred, else (minStartTime, maxEndTime), and the event spans that
\* pair; a shift with no complete schema or with unparseable bounds has no
\* event.
C18_BreakIffBounds ==
  BaselineReturned =>
    \A i \in Indices(modelInput.vehicles) :
       \A s \in 0..(Len(modelInput.vehicles[i].shifts) - 1) :
          LET vehicle == modelInput.vehicles[i]
              bounds == ClaimedBounds(vehicle.shifts[s + 1])
              breaks == BreaksOf(baselineSchedule, vehicle, s)
          IN IF bounds = <<>> THEN breaks = {}
             ELSE /\ breaks # {}
                  /\ \A e \in breaks :
                       /\ baselineSchedule.events[e].startDate = bounds[1]
                       /\ baselineSchedule.events[e].endDate = bounds[2]

----------------------------------------------------------------------------
(* Fallback sequential placement *)

\* no planned visit of the route carries a timestamp
NoTimestamps(route) ==
  \A k \in Indices(route.visits) :
     /\ route.visits[k].arrivalTime.k = "absent"
     /\ route.visits[k].startServiceTime.k = "absent"
     /\ route.visits[k].departureTime.k = "absent"

\* the base of the route clocks: the start of the first shift of the first
\* vehicle, the reading of the clock when it has none
ClaimedRouteBase ==
  IF Truthy(getShiftStartTime(modelInput.vehicles[1].shifts[1]))
  THEN getShiftStartTime(modelInput.vehicles[1].shifts[1]).t
  ELSE now.routes

\* the service durations of the visits of the route before position k
\* (from 0), summed
RECURSIVE EarlierDurations(_, _)
EarlierDurations(route, k) ==
  IF k = 0 THEN 0
  ELSE EarlierDurations(route, k - 1)
       + ClaimedServiceDuration(ClaimedVisitId(route.visits[k], k - 1))

\* where the claim places the visit at position k (from 0) of a route
ClaimedFallbackStart(route, k) ==
  ClaimedRouteBase + 15 * k + EarlierDurations(route, k)

\* C19: in a returned optimized schedule, for a route none of whose planned
\* visits carries a timestamp, the visit at position k (from 0) starts at
\* base + 15 * k minutes + the service durations of the route's earlier
\* visits and lasts its own service duration; base is the first vehicle's
\* first shift start (the clock reading when it has none), the same for
\* every route whatever the other routes hold.
C19_FallbackPlacement ==
  OptimizedReturned =>
    \A r \in Indices(routePlan.routes) :
      NoTimestamps(routePlan.routes[r]) =>
        \A k \in 0..(Len(routePlan.routes[r].visits) - 1) :
           EmittedAs(routePlan.routes[r], k,
             At(ClaimedFallbackStart(routePlan.routes[r], k)),
             At(ClaimedFallbackStart(routePlan.routes[r], k)
                + ClaimedServiceDuration(
                    ClaimedVisitId(routePlan.routes[r].visits[k + 1], k))))

\* C19 witness: a returned optimized schedule for a plan of two routes
\* without timestamps, one of two visits, the other following a route that
\* advanced its clock; a visit has a defined duration other than 30 minutes
\* and the first shift start is given
C19_Witness ==
  /\ OptimizedReturned
  /\ Len(routePlan.routes) = 2
  /\ NoTimestamps(routePlan.routes[1]) /\ NoTimestamps(routePlan.routes[2])
  /\ Len(routePlan.routes[1].visits) = 2
  /\ Len(routePlan.routes[2].visits) = 1
  /\ Len(optimizedSchedule.events) = 3
  /\ EarlierDurations(routePlan.routes[1], 1) # 30
  /\ Truthy(getShiftStartTime(modelInput.vehicles[1].shifts[1]))

\* C19 witness of the other seed: a returned optimized schedule placing a
\* route without timestamps from the clock reading, the first vehicle's
\* first shift having no start
C19_ClockSeeded ==
  /\ OptimizedReturned
  /\ Len(routePlan.routes) >= 1
  /\ NoTimestamps(routePlan.routes[1])
  /\ Len(routePlan.routes[1].visits) >= 2
  /\ ~Truthy(getShiftStartTime(modelInput.vehicles[1].shifts[1]))

----------------------------------------------------------------------------
(* Optimized travel time *)

\* the travelTimeFromPrevious of the planned visits from position i on,
\* summed
RECURSIVE VisitTravel(_, _)
VisitTravel(visits, i) ==
  IF i > Len(visits) THEN 0
  ELSE parseDurationToMinutes(visits[i].travelTimeFromPrevious)
       + VisitTravel(visits, i + 1)

\* the walk of the claim over the routes from the r-th on, entered with the
\* running total: the visits' travel times are added, and a route's
\* aggregate replaces the total reached after that route
RECURSIVE ClaimedTravelWalk(_, _, _)
ClaimedTravelWalk(routes, r, total) ==
  IF r > Len(routes) THEN total
  ELSE ClaimedTravelWalk(routes, r + 1,
         IF TruthyDuration(routes[r].totalTravelTime)
         THEN parseDurationToMinutes(routes[r].totalTravelTime)
         ELSE total + VisitTravel(routes[r].visits, 1))

PlanWithoutMetrics ==
  KpisComputed /\ routePlan.present /\ ~routePlan.metrics.present

\* C20: for a route plan without plan-level metrics, the reported
\* totalTravelTimeOptimized is the total of the walk over the routes in plan
\* order: every planned visit's travelTimeFromPrevious is added, the total
\* is replaced by the aggregate of a route that carries one, so the last
\* aggregate wins and only the visits of later routes add to it.
C20_LastAggregateWins ==
  PlanWithoutMetrics =>
    kpis.totalTravelTimeOptimized
      = Num(ClaimedTravelWalk(routePlan.routes, 1, 0))

\* the same for the plans whose walk ends at a total other than 0
C20_NonZeroWalk ==
  (PlanWithoutMetrics /\ ClaimedTravelWalk(routePlan.routes, 1, 0) # 0) =>
    kpis.totalTravelTimeOptimized
      = Num(ClaimedTravelWalk(routePlan.routes, 1, 0))

----------------------------------------------------------------------------
(* Duration parsing *)

UnitRank(u) == CASE u = "H" -> 1 [] u = "M" -> 2 [] u = "S" -> 3 [] OTHER -> 0

\* the string has the form PT{h}H{m}M{s}S, each of the three parts optional
WellFormed(d) ==
  /\ d.present
  /\ d.toks # <<>>
  /\ d.toks[1] = PTtok
  /\ \A i \in 2..Len(d.toks) : UnitRank(d.toks[i].u) > 0
  /\ \A i \in 2..Len(d.toks) : \A j \in 2..Len(d.toks) :
        i < j => UnitRank(d.toks[i].u) < UnitRank(d.toks[j].u)

\* the number carried by the part of a well-formed string with the unit u,
\* 0 when the part is missing
PartOf(d, u) ==
  IF \E i \in 2..Len(d.toks) : d.toks[i].u = u
  THEN d.toks[CHOOSE i \in 2..Len(d.toks) : d.toks[i].u = u].n
  ELSE 0

ClaimedMinutes(d) ==
  IF WellFormed(d)
  THEN PartOf(d, "H") * 60 + PartOf(d, "M") + CeilDiv(PartOf(d, "S"), 60)
  ELSE 0

Parsed == pc = "parsed"

\* C17: parseDurationToMinutes returns h * 60 + m + ceil(s / 60) for a
\* string PT{h}H{m}M{s}S (each part optional), and 0 for undefined, for the
\* empty string and for a string that is not of that form.
C17_ParsedMinutes ==
  Parsed => parsedMinutes = ClaimedMinutes(durationString)

\* the same for the well-formed strings, undefined, the empty string and
\* the strings that hold no "PT" at all
C17_WellFormedOrNoPT ==
  (Parsed /\ (WellFormed(durationString)
                \/ FirstPT(durationString.toks, 1) = 0)) =>
     parsedMinutes = ClaimedMinutes(durationString)

----------------------------------------------------------------------------
(* Properties of the page: polling *)

\* C12: within one optimization run (one submitted route plan) the client
\* sends at most maxPolls poll requests, whatever the user does while the
\* run is polling (adding a visit, which replaces the baseline schedule,
\* included).
C12_PollCeiling ==
  \A k \in 1..Len(polls) : polls[k].sent <= maxPolls

\* the ceiling as the code keeps it: per run of the polling effect
C12_CeilingPerLoop ==
  \A i \in 1..Len(loops) : loops[i].pollCount < maxPolls

\* the cleanup of the effect run that started loop i has run
TornDown(i) == loops[i].torn

\* C13: a polling loop whose effect has been torn down sends no further
\* poll request, and the response to a poll it had in flight at teardown
\* changes none of routePlan, optimizedSchedule, kpis, currentView and
\* status.
C13_TornDownIsSilent ==
  [][\A i \in 1..Len(loops) :
       TornDown(i) =>
         /\ ~PollTimerOf(i)
         /\ PollResponseOf(i) =>
              UNCHANGED <<routePlan, optimizedSchedule, kpis, currentView,
                          status>>]_vars

\* C14: when the page handles a poll response with a terminal solver status
\* (SOLVING_COMPLETED, SOLVING_INCOMPLETE, SOLVING_FAILED, DATASET_INVALID,
\* EXCEPTION) the status is no longer "polling" and the loop is over, and
\* from then on no poll request is sent for that route plan; a response with
\* any other solver status, below the ceiling, leaves the loop waiting for
\* its next poll.
C14_TerminalStopsPolling ==
  [][/\ \A i \in 1..Len(loops) :
          PollResponseOf(i) =>
            IF TerminalAnswer(loops[i])
            THEN status' # "polling" /\ Len(loops') < Len(loops)
            ELSE loops[i].pollCount + 1 < maxPolls =>
                   /\ Len(loops') = Len(loops)
                   /\ loops'[i] = [loops[i] EXCEPT !.pollCount = @ + 1,
                                                   !.phase = "waiting"]
     /\ \A k \in 1..Len(polls) :
          polls[k].ended => polls'[k].sent = polls[k].sent]_vars

\* the same without the requests sent after the terminal response: what a
\* loop does with its own response
C14_OwnResponse ==
  [][\A i \in 1..Len(loops) :
       PollResponseOf(i) =>
         IF TerminalAnswer(loops[i])
         THEN status' # "polling" /\ Len(loops') < Len(loops)
         ELSE loops[i].pollCount + 1 < maxPolls =>
                /\ Len(loops') = Len(loops)
                /\ loops'[i] = [loops[i] EXCEPT !.pollCount = @ + 1,
                                                !.phase = "waiting"]]_vars

----------------------------------------------------------------------------
(* Properties of the page: runs in flight *)

\* C15: no route plan is submitted while the status is "optimizing" or
\* "polling", and at any time at most one polling loop is active and at
\* most one pending result (a remote poll or a local-simulation timer) can
\* still write routePlan or optimizedSchedule.
C15_OneRunInFlight ==
  [][/\ posts' > posts => status \notin {"optimizing", "polling"}
     /\ Len(loops') <= 1
     /\ Len(loops') + Len(timers') <= 1]_vars

\* the part the optimize button ensures
C15_NoSubmissionWhileRunning ==
  [][posts' > posts => status \notin {"optimizing", "polling"}]_vars

\* two polling loops at once
C15_OneLoop == Len(loops) <= 1

\* two timers of simulateLocally at once
C15_OneTimer == Len(timers) <= 1

\* the events of the optimized schedule that an edit has replaced: the
\* mappers and the simulator set no isAdjusted
EditedEvents ==
  IF optimizedSchedule = Null THEN {}
  ELSE {i \in 1..Len(optimizedSchedule.events) :
          /\ "isAdjusted" \in DOMAIN optimizedSchedule.events[i]
          /\ optimizedSchedule.events[i].isAdjusted}

\* the optimized schedule after the step is the one before it with the
\* events of the record's id carrying the record's start, end and resource
\* and isAdjusted = true, every other event as before, the same number of
\* events and the same resources
ReplacedBy(record) ==
  /\ optimizedSchedule' # Null
  /\ optimizedSchedule'.threw = optimizedSchedule.threw
  /\ optimizedSchedule'.resources = optimizedSchedule.resources
  /\ Len(optimizedSchedule'.events) = Len(optimizedSchedule.events)
  /\ \A i \in 1..Len(optimizedSchedule.events) :
       IF optimizedSchedule.events[i].id = record.id
       THEN /\ optimizedSchedule'.events[i].id = record.id
            /\ optimizedSchedule'.events[i].startDate = record.startDate
            /\ optimizedSchedule'.events[i].endDate = record.endDate
            /\ optimizedSchedule'.events[i].resourceId = record.resourceId
            /\ optimizedSchedule'.events[i].isAdjusted
       ELSE optimizedSchedule'.events[i] = optimizedSchedule.events[i]

----------------------------------------------------------------------------
(* Optimized utilization *)

PlanWithRoutes == KpisComputed /\ routePlan.present /\ routePlan.hasRoutes

\* the service duration of the visit definition the optimized service-time
\* total uses for a planned visit (looked up by visit.id || visit.visitId),
\* 30 minutes if none
ClaimedDefinitionMinutes(pv) ==
  ServiceMinutes(FindVisitDuration(modelInput.visits,
                   IF pv.id # "" THEN pv.id ELSE pv.visitId, 1))

\* the service duration of the visit definition found by pv.visitId alone
VisitIdDefinitionMinutes(pv) ==
  ServiceMinutes(FindVisitDuration(modelInput.visits, pv.visitId, 1))

\* W over the planned visits from position i on, the service minutes of one
\* being service[i]
RECURSIVE ClaimedRouteWork(_, _, _)
ClaimedRouteWork(visits, service, i) ==
  IF i > Len(visits) THEN Num(0)
  ELSE NAdd(NAdd(Num(service[i]
                     + parseDurationToMinutes(visits[i].travelTimeFromPrevious)),
                 PlannedWait(visits[i])),
            ClaimedRouteWork(visits, service, i + 1))

\* round(min(100, W / shift duration * 100)) for the vehicle's route, 0
\* without a route
ClaimedUtilization(vehicle, service) ==
  IF \E r \in Indices(routePlan.routes) :
       routePlan.routes[r].vehicleId = vehicle.id
  THEN LET r == CHOOSE q \in Indices(routePlan.routes) :
                  /\ routePlan.routes[q].vehicleId = vehicle.id
                  /\ \A p \in 1..(q - 1) :
                       routePlan.routes[p].vehicleId # vehicle.id
           visits == routePlan.routes[r].visits
       IN NUtil(ClaimedRouteWork(visits, service[r], 1), 1,
                ShiftDuration(vehicle.shifts[1]).v)
  ELSE Num(0)

\* C21: with a route plan present, the optimized utilization reported for a
\* vehicle is round(min(100, W / shift duration * 100)), W being the sum over
\* the planned visits of the vehicle's route of the service duration of the
\* visit definition the optimized service-time total uses for the planned
\* visit (30 minutes if none), its travelTimeFromPrevious and its wait time;
\* a vehicle without a route gets 0.
C21_UtilizationFromRoute ==
  PlanWithRoutes =>
    \A id \in DOMAIN kpis.utilizationByResourceOptimized :
       kpis.utilizationByResourceOptimized[id]
         = ClaimedUtilization(LastUtilized(modelInput, id),
             [r \in Indices(routePlan.routes) |->
                [i \in Indices(routePlan.routes[r].visits) |->
                   ClaimedDefinitionMinutes(routePlan.routes[r].visits[i])]])

\* the same with the visit definition looked up by the planned visit's
\* visitId alone
C21_ByVisitIdAlone ==
  PlanWithRoutes =>
    \A id \in DOMAIN kpis.utilizationByResourceOptimized :
       kpis.utilizationByResourceOptimized[id]
         = ClaimedUtilization(LastUtilized(modelInput, id),
             [r \in Indices(routePlan.routes) |->
                [i \in Indices(routePlan.routes[r].visits) |->
                   VisitIdDefinitionMinutes(routePlan.routes[r].visits[i])]])

\* a vehicle with a route whose one planned visit names its definition by id
\* only, the definition lasting other than 30 minutes
C21_IdOnlyVisit ==
  /\ PlanWithRoutes
  /\ \E r \in Indices(routePlan.routes) :
       /\ routePlan.routes[r].vehicleId \in
            DOMAIN kpis.utilizationByResourceOptimized
       /\ \A p \in 1..(r - 1) :
            routePlan.routes[p].vehicleId # routePlan.routes[r].vehicleId
       /\ \E i \in Indices(routePlan.routes[r].visits) :
            LET pv == routePlan.routes[r].visits[i]
            IN /\ pv.id # "" /\ pv.visitId = ""
               /\ ClaimedDefinitionMinutes(pv) # DefaultServiceDuration

----------------------------------------------------------------------------
(* Baseline side of the KPI summary *)

\* the minutes of the service durations visits are given: one hour, 20
\* minutes 30 seconds (rounded up to 21), and 30 for a visit whose duration
\* does not parse
ClaimedVisitMinutes(visit) ==
  CASE visit.serviceDuration = PT1H -> 60
    [] visit.serviceDuration = PT20M30S -> 21
    [] visit.serviceDuration = NoDuration -> 30

RECURSIVE ClaimedServiceSum(_, _)
ClaimedServiceSum(visits, i) ==
  IF i > Len(visits) THEN 0
  ELSE ClaimedVisitMinutes(visits[i]) + ClaimedServiceSum(visits, i + 1)

\* the baseline side of a KPI summary is the claimed function of the visits
ClaimedBaselineSide(summary, visits, service) ==
  /\ summary.totalVisitsBaseline = Len(visits)
  /\ summary.assignedVisitsBaseline = Len(visits)
  /\ summary.unassignedVisitsBaseline = 0
  /\ summary.totalTravelTimeBaseline = Num(15 * Len(visits))
  /\ summary.totalWaitTimeBaseline = Num(5 * Len(visits))
  /\ summary.totalServiceTimeBaseline = Num(service)
  /\ summary.totalWorkTimeBaseline = Num(service + 20 * Len(visits))
  /\ summary.totalCostBaseline
       = Num(((service + 20 * Len(visits)) * 900 + 60) \div 120)

----------------------------------------------------------------------------
(* Local simulation of events without a positive span *)

SimulatedReturned == pc = "simulated" /\ ~simulatedSchedule.threw

\* the baseline events whose endDate is not after their startDate
NonPositiveEvents ==
  {i \in Indices(baselineSchedule.events) :
     baselineSchedule.events[i].endDate.t
       <= baselineSchedule.events[i].startDate.t}

\* the events of the simulated schedule made from the i-th baseline event
SimulatedFrom(i) ==
  {j \in Indices(simulatedSchedule.events) :
     /\ simulatedSchedule.events[j].id
          = baselineSchedule.events[i].id \o "-optimized"
     /\ simulatedSchedule.events[j].resourceId
          = baselineSchedule.events[i].resourceId}

\* C23: a baseline event whose endDate is not after its startDate yields no
\* event in the schedule simulateOptimizedSchedule returns.
C23_NonPositiveDropped ==
  SimulatedReturned => \A i \in NonPositiveEvents : SimulatedFrom(i) = {}

\* such an event is kept instead, lasting 30 minutes
C23_KeptAsHalfHour ==
  SimulatedReturned =>
    \A i \in NonPositiveEvents :
       /\ SimulatedFrom(i) # {}
       /\ \A j \in SimulatedFrom(i) :
            simulatedSchedule.events[j].endDate.t
              = simulatedSchedule.events[j].startDate.t + 30

\* a simulated schedule made from a baseline with such an event
C23_NonPositiveSimulated == SimulatedReturned /\ NonPositiveEvents # {}

----------------------------------------------------------------------------
(* Event ids *)

DistinctVisitIds ==
  \A i, j \in Indices(modelInput.visits) :
     i # j => modelInput.visits[i].id # modelInput.visits[j].id

DistinctEventIds(schedule) ==
  \A i, j \in Indices(schedule.events) :
     i # j => schedule.events[i].id # schedule.events[j].id

\* C28: for a model input whose visit ids are pairwise distinct, the ids of
\* the events of the returned baseline schedule and of the returned
\* optimized schedule are pairwise distinct, for every route plan (several
\* routes and planned visits without an id included).
C28_EventIdsDistinct ==
  DistinctVisitIds =>
    /\ BaselineReturned => DistinctEventIds(baselineSchedule)
    /\ OptimizedReturned => DistinctEventIds(optimizedSchedule)

\* the baseline half alone
C28_BaselineIdsDistinct ==
  (DistinctVisitIds /\ BaselineReturned) => DistinctEventIds(baselineSchedule)

\* the optimized half for plans in which no two routes hold, at the same
\* position, planned visits resolving to the same visit id
C28_DistinctPerPosition ==
  (/\ DistinctVisitIds
   /\ OptimizedReturned
   /\ \A r, q \in Indices(routePlan.routes) :
        r # q =>
          \A k \in Indices(routePlan.routes[r].visits)
                     \cap Indices(routePlan.routes[q].visits) :
             PlannedVisitId(routePlan.routes[r].visits[k], k - 1)
               # PlannedVisitId(routePlan.routes[q].visits[k], k - 1)
   /\ \A i, j \in Indices(routePlan.unassignedVisits) :
        i # j => routePlan.unassignedVisits[i].id
                   # routePlan.unassignedVisits[j].id)
    => DistinctEventIds(optimizedSchedule)

\* a returned optimized schedule for two routes that each open with a
\* planned visit without an id
C28_TwoRoutesWithoutId ==
  /\ DistinctVisitIds
  /\ OptimizedReturned
  /\ Len(routePlan.routes) = 2
  /\ \A r \in 1..2 :
       /\ Len(routePlan.routes[r].visits) >= 1
       /\ routePlan.routes[r].visits[1].id = ""
       /\ routePlan.routes[r].visits[1].visitId = ""
  /\ ~DistinctEventIds(optimizedSchedule)

----------------------------------------------------------------------------
(* Events and their resources *)

ResourceIds(schedule) ==
  {schedule.resources[i].id : i \in Indices(schedule.resources)}

EventsOnResources(schedule) ==
  \A i \in Indices(schedule.events) :
     schedule.events[i].resourceId \in ResourceIds(schedule)

\* C30: in every schedule returned by mapInputToBaselineSchedule,
\* mapRoutePlanToOptimizedSchedule and simulateOptimizedSchedule each
\* event's resourceId is the id of a resource of that schedule's resource
\* list.
C30_EventsOnResources ==
  /\ BaselineReturned => EventsOnResources(baselineSchedule)
  /\ OptimizedReturned => EventsOnResources(optimizedSchedule)
  /\ SimulatedReturned => EventsOnResources(simulatedSchedule)

\* the baseline and the simulated schedule alone
C30_BaselineAndSimulated ==
  /\ BaselineReturned => EventsOnResources(baselineSchedule)
  /\ SimulatedReturned => EventsOnResources(simulatedSchedule)

\* the optimized schedule for plans whose routes all name a vehicle of the
\* model input
C30_KnownVehicles ==
  (/\ OptimizedReturned
   /\ \A r \in Indices(routePlan.routes) :
        \E v \in Indices(modelInput.vehicles) :
           modelInput.vehicles[v].id = routePlan.routes[r].vehicleId)
    => EventsOnResources(optimizedSchedule)

\* a returned optimized schedule with an event of a route whose vehicleId
\* names no vehicle of the model input
C30_StrangerRoute ==
  /\ OptimizedReturned
  /\ \E i \in Indices(optimizedSchedule.events) :
       optimizedSchedule.events[i].resourceId
         \notin ResourceIds(optimizedSchedule)

----------------------------------------------------------------------------
(* Properties of the page: solver failures *)

\* loop i holds a response that reports the given solver status
Reports(i, solverStatus) ==
  /\ loops[i].phase = "answered"
  /\ loops[i].response.routePlan.solverStatus = solverStatus

\* C24: when the page handles a poll that reports DATASET_INVALID, the
\* status becomes "error" and the message shown is one the error banner
\* renders as the dataset-validation (map-coverage) message, whether or not
\* the solver supplied validation error details.
C24_DatasetInvalidDistinguished ==
  [][\A i \in 1..Len(loops) :
       (Reports(i, "DATASET_INVALID") /\ PollResponseOf(i)) =>
          status' = "error" /\ isMapCoverageError(errorMessage')]_vars

\* the run ends in status "error" with the message of the route
C24_EndsInError ==
  [][\A i \in 1..Len(loops) :
       (Reports(i, "DATASET_INVALID") /\ PollResponseOf(i)) =>
          /\ status' = "error"
          /\ errorMessage' = loops[i].response.error]_vars

\* the message is the distinguished one when the solver supplied no details
C24_WithoutDetails ==
  [][\A i \in 1..Len(loops) :
       (/\ Reports(i, "DATASET_INVALID")
        /\ loops[i].response.error = DatasetInvalidMessage(<<>>)
        /\ PollResponseOf(i)) =>
          status' = "error" /\ isMapCoverageError(errorMessage')]_vars

\* a DATASET_INVALID run has ended with the details of the solver shown
C24_DetailsShown ==
  /\ status = "error"
  /\ errorMessage
       = "Dataset validation failed: Visit v1 has no location (and 1 more errors)"
  /\ \E k \in 1..Len(solver) : solver[k] = "DATASET_INVALID" /\ polls[k].ended

\* a DATASET_INVALID run has ended without details
C24_NoDetailsShown ==
  /\ status = "error"
  /\ errorMessage = DatasetInvalidMessage(<<>>)
  /\ \E k \in 1..Len(solver) : solver[k] = "DATASET_INVALID" /\ polls[k].ended

\* C25: when the page handles a poll that reports the solver status
\* EXCEPTION, the status becomes "error" with the message "Solver
\* encountered an error during optimization"; the page does not reach the
\* status "complete" nor switch to the optimized view for that run.
C25_ExceptionEndsInError ==
  [][\A i \in 1..Len(loops) :
       (Reports(i, "EXCEPTION") /\ PollResponseOf(i)) =>
          /\ status' = "error"
          /\ errorMessage' = "Solver encountered an error during optimization"
          /\ currentView' = currentView]_vars

\* what the page does with such a poll: the run is taken as complete
C25_ExceptionCompletes ==
  [][\A i \in 1..Len(loops) :
       (Reports(i, "EXCEPTION") /\ PollResponseOf(i)) =>
          /\ status' = "complete"
          /\ currentView' = "optimized"
          /\ routePlan'.solverStatus = "EXCEPTION"]_vars

\* the page shows as complete a run the solver ended in EXCEPTION
C25_ExceptionShownComplete ==
  /\ status = "complete"
  /\ currentView = "optimized"
  /\ routePlan.present
  /\ routePlan.solverStatus = "EXCEPTION"
  /\ errorMessage = ""

----------------------------------------------------------------------------
(* Properties of the page: runs older than the loaded dataset *)

\* a dataset load completes successfully in the step
LoadCompletes == Len(loads') < Len(loads) /\ status' = "idle"

\* C26: a successful load leaves status "idle", view "baseline" and
\* routePlan and optimizedSchedule null, and a poll response or a
\* local-simulation timer of a run started before the load writes none of
\* routePlan, optimizedSchedule, kpis and currentView afterwards.
C26_OlderRunsAreSilent ==
  [][/\ LoadCompletes =>
          /\ currentView' = "baseline"
          /\ routePlan' = NoPlan /\ optimizedSchedule' = Null
     /\ \A i \in 1..Len(loops) :
          (loops[i].beforeLoad /\ PollResponseOf(i)) =>
             UNCHANGED <<routePlan, optimizedSchedule, kpis, currentView>>
     /\ \A i \in 1..Len(timers) :
          (timers[i].beforeLoad /\ SimulationTimerOf(i)) =>
             UNCHANGED <<routePlan, optimizedSchedule, kpis, currentView>>]_vars

\* the part loadDataset ensures by itself
C26_LoadClears ==
  [][LoadCompletes =>
       /\ currentView' = "baseline"
       /\ routePlan' = NoPlan /\ optimizedSchedule' = Null]_vars

\* the timers of simulateLocally alone
C26_OlderTimersAreSilent ==
  [][\A i \in 1..Len(timers) :
       (timers[i].beforeLoad /\ SimulationTimerOf(i)) =>
          UNCHANGED <<routePlan, optimizedSchedule, kpis, currentView>>]_vars

\* the polling loops alone
C26_OlderLoopsAreSilent ==
  [][\A i \in 1..Len(loops) :
       (loops[i].beforeLoad /\ PollResponseOf(i)) =>
          UNCHANGED <<routePlan, optimizedSchedule, kpis, currentView>>]_vars

\* a load has completed while a simulation timer was pending
C26_TimerOutlivesLoad ==
  /\ status = "idle" /\ currentView = "baseline"
  /\ optimizedSchedule = Null
  /\ \E i \in 1..Len(timers) : timers[i].beforeLoad

\* a load has completed while the poll of a run was in flight
C26_PollOutlivesLoad ==
  /\ status = "idle" /\ currentView = "baseline"
  /\ optimizedSchedule = Null /\ routePlan = NoPlan
  /\ \E i \in 1..Len(loops) : loops[i].beforeLoad

----------------------------------------------------------------------------
(* Properties of the page: the local fixture *)

\* C27: whenever the loaded input model is the local demo fixture, also
\* when the server put it in place of a remote dataset, a start of an
\* optimization is rejected with an error message and nothing is submitted
\* to the solver.
C27_FixtureNeverSubmitted ==
  [][(inputModel = LocalDemoModel /\ StartOptimization) =>
        /\ posts' = posts
        /\ errorMessage' # ""
        /\ status' = status]_vars

\* the same while the selected dataset is the local one
C27_LocalSelectionRejected ==
  [][(selectedDatasetId = "local-demo" /\ StartOptimization) =>
        /\ posts' = posts
        /\ errorMessage' # ""
        /\ status' = status]_vars

\* the fixture is loaded under the id of a remote dataset and a route plan
\* has been created since
C27_FixtureSubmitted ==
  /\ inputModel = LocalDemoModel
  /\ selectedDatasetId # "local-demo"
  /\ loads = <<>>
  /\ Len(solver) > 0
  /\ status = "polling"

----------------------------------------------------------------------------
(* Properties of the page: status filters *)

\* every visit event of the schedule passes the status filters
VisitsShown(schedule, filters) ==
  \A i \in Indices(schedule.events) :
     schedule.events[i].eventType = "visit" =>
        ShownByStatus(schedule.events[i], filters)

VisitEvents(schedule) ==
  {schedule.events[i] : i \in {j \in Indices(schedule.events) :
                                 schedule.events[j].eventType = "visit"}}

\* the schedule holds every one of the events
Contains(schedule, events) ==
  events \subseteq {schedule.events[i] : i \in Indices(schedule.events)}

\* C29: whenever a dataset load completes and the page shows the baseline
\* view, every visit event of the baseline schedule is in the displayed
\* (filtered) schedule, after any earlier loads, optimizations and
\* simulations of a session in which no status filter was toggled.
C29_LoadedBaselineShown ==
  [][LoadCompletes =>
       /\ currentView' = "baseline"
       /\ Contains(filteredSchedule(currentView', baselineSchedule',
                                    optimizedSchedule', activeStatusFilters'),
                   VisitEvents(baselineSchedule'))]_vars

\* the same for the loads before an optimization has completed
C29_BeforeAnyCompletion ==
  [][(LoadCompletes /\ activeStatusFilters = {"oplanerad", "planerad"}) =>
       /\ currentView' = "baseline"
       /\ VisitsShown(baselineSchedule', activeStatusFilters')]_vars

\* a dataset has been loaded after an optimization completed: the baseline
\* view is shown and the status filters hide its visits
C29_LoadedBaselineHidden ==
  /\ status = "idle" /\ currentView = "baseline"
  /\ loads = <<>> /\ loops = <<>> /\ timers = <<>>
  /\ baselineSchedule # Null
  /\ activeStatusFilters = {"optimerad"}
  /\ \E i \in Indices(baselineSchedule.events) :
       baselineSchedule.events[i].eventType = "visit"
  /\ ~VisitsShown(baselineSchedule, activeStatusFilters)

====
